---- MODULE Spec2Model ----
(***************************************************************************)
(* The round-based debate orchestrator of MindGlass                        *)
(* (backend/app/orchestrator/debate.py), the agents' record streams        *)
(* (backend/app/agents/*.py) and the part of the websocket session that    *)
(* drives it (backend/app/main.py).                                        *)
(*                                                                         *)
(* asyncio is cooperative: a coroutine runs until its next await or yield. *)
(* Every action below is one such uninterrupted stretch of code.           *)
(***************************************************************************)
EXTENDS Integers, Sequences, FiniteSets, TLC

VARIABLES
    pc,                 \* where the debate task (run_stream/stream_debate/_run_round) is suspended
    model_id,           \* stream_debate: model id the tier maps to
    industry,           \* self.industry
    selected_agents,    \* self.selected_agents
    debate_rounds,      \* stream_debate: the plan built by _build_debate_rounds
    round_index,        \* stream_debate: index into debate_rounds (0-based, as in the code)
    current_round_num,  \* self._current_round_num (0 models None)
    interrupt_event,    \* self._interrupt_event: "none" | "clear" | "set"
    user_constraints,   \* self.user_constraints
    blackboard,         \* self.blackboard: round_num -> ordered <<agent, text>> entries
    token_count,        \* self.token_count
    enriched_query,     \* the prompt of the current round attempt, a sequence of lines
    queue,              \* _run_round: the asyncio.Queue of the current attempt
    tasks,              \* _run_round: one stream_agent task per participant
    agents_done,        \* _run_round: agents_done
    agent_buffers,      \* _run_round: agent_buffers
    snapshots,          \* number of metrics snapshots emitted in the current attempt
    out,                \* history: records yielded downstream in the current round attempt
    roundStarts,        \* history: the round fields of the round_start records of the debate
    restarts,           \* history: number of RoundRestartRequested handled in the debate
    roundDone,          \* history: agent_done records emitted per agent in the current round
    injected,           \* history: constraints passed to inject_constraint since the debate began
    completes,          \* history: debate_complete frames sent to the client
    handler,            \* websocket_endpoint: "receiving" | "disconnected" | "failed"
    received,           \* the frame websocket.receive_text() returned last
    reply,              \* the records the handler sent in answer to that frame
    prior,              \* the stream task the current one replaced: "none" or where it stood
    server_key,         \* settings.CEREBRAS_API_KEY is set
    stream_count,       \* number of stream tasks the session has created
    entries,            \* Blackboard.entries (orchestrator/blackboard.py)
    max_tokens,         \* Blackboard.max_tokens
    appended,           \* history: the entries Blackboard.append has built, in call order
    orphans,            \* agents whose task of an earlier _run_round call has not finished
    abandoned,          \* the queue of an earlier _run_round call: what such tasks put in it
    other_commands      \* commands a second session's handler has passed to the orchestrator

vars == <<pc, model_id, industry, selected_agents, debate_rounds, round_index,
          current_round_num, interrupt_event, user_constraints, blackboard,
          token_count, enriched_query, queue, tasks, agents_done, agent_buffers,
          snapshots, out, roundStarts, restarts, roundDone, injected, completes,
          handler, received, reply, prior, server_key, stream_count,
          entries, max_tokens, appended, orphans, abandoned,
          other_commands>>

(***************************************************************************)
(* Bounds of the model.                                                    *)
(***************************************************************************)
\* tokens an upstream stream yields before it ends or fails
MaxTokens == 1
\* inject_constraint commands per debate
MaxInjects == 1
\* metrics snapshots (one per 500 ms) per round attempt
MaxSnapshots == 1
\* length of the constraint lists prompts are rendered for
MaxConstraints == 3

(***************************************************************************)
(* Sequence helpers.                                                       *)
(***************************************************************************)
Range(s) == {s[i] : i \in 1..Len(s)}

InSeq(x, s) == \E i \in 1..Len(s) : s[i] = x

RECURSIVE Filter(_, _)
\* [a for a in s if a in keep]
Filter(s, keep) ==
    IF s = <<>> THEN <<>>
    ELSE (IF Head(s) \in keep THEN <<Head(s)>> ELSE <<>>) \o Filter(Tail(s), keep)

RECURSIVE Flatten(_)
Flatten(ss) == IF ss = <<>> THEN <<>> ELSE Head(ss) \o Flatten(Tail(ss))

\* s starts with p
StartsWith(s, p) == Len(s) >= Len(p) /\ SubSeq(s, 1, Len(p)) = p

\* p occurs in s as a contiguous run
Contains(s, p) ==
    \E i \in 0..(Len(s) - Len(p)) : SubSeq(s, i + 1, i + Len(p)) = p

(***************************************************************************)
(* Texts. A token's content is named by an id in the state; Text gives its *)
(* characters, which is what startswith() and the retry classifier read.   *)
(***************************************************************************)
ErrorPrefix == <<"[", "E", "r", "r", "o", "r", ":">>

\* content of an ordinary token
OkContent == "ok"

\* upstream failures: str(e) of the exception an agent catches
UpstreamErrors == {"ErrRate", "ErrBad"}

\* the content of the token f"[Error: {str(e)}]" (or the plain token text)
Text(c) ==
    CASE c = "ErrRate" -> <<"[", "E", "r", "r", "o", "r", ":", " ", "R", "a", "t", "e", " ",
                            "L", "i", "m", "i", "t", "]">>
      [] c = "ErrBad"  -> <<"[", "E", "r", "r", "o", "r", ":", " ", "b", "a", "d", " ", "k",
                            "e", "y", "]">>
      [] c = "ok"      -> <<"o", "k">>
      [] OTHER         -> <<>>

\* str.lower() on the characters the texts use
LowerChar(ch) ==
    CASE ch = "E" -> "e"
      [] ch = "R" -> "r"
      [] ch = "L" -> "l"
      [] OTHER    -> ch

Lower(s) == [i \in 1..Len(s) |-> LowerChar(s[i])]

Triggers == {
      <<"r", "a", "t", "e", " ", "l", "i", "m", "i", "t">>,
      <<"l", "i", "m", "i", "t", " ", "e", "x", "c", "e", "e", "d", "e", "d">>,
      <<"q", "u", "o", "t", "a">>,
      <<"4", "2", "9">>,
      <<"t", "i", "m", "e", "o", "u", "t">>,
      <<"t", "i", "m", "e", "d", " ", "o", "u", "t">>,
      <<"d", "e", "a", "d", "l", "i", "n", "e">>,
      <<"o", "v", "e", "r", "l", "o", "a", "d", "e", "d">>,
      <<"t", "e", "m", "p", "o", "r", "a", "r", "i", "l", "y", " ", "u", "n", "a", "v", "a",
        "i", "l", "a", "b", "l", "e">>,
      <<"s", "e", "r", "v", "i", "c", "e", " ", "u", "n", "a", "v", "a", "i", "l", "a", "b",
        "l", "e">> }

\* _is_retryable_error(error_text), on the characters of the text
IsRetryableText(chars) ==
    /\ chars # <<>>
    /\ \E trigger \in Triggers : Contains(Lower(chars), trigger)

\* self._is_retryable_error(error_text); "" models None / the empty string
IsRetryableError(error_text) ==
    /\ error_text # ""
    /\ IsRetryableText(Text(error_text))

\* token["content"].startswith("[Error:")
IsErrorContent(c) == StartsWith(Text(c), ErrorPrefix)

(***************************************************************************)
(* Agents and the industry overlay.                                        *)
(***************************************************************************)
ALL_AGENT_IDS ==
    <<"analyst", "optimist", "pessimist", "critic", "strategist", "finance", "risk",
      "synthesizer">>

\* the industries of INDUSTRY_AGENTS the model uses, with their ordered specialists
INDUSTRY_AGENTS == [saas |-> <<"saas_metrics", "saas_growth">>]

IsIndustry(ind) == ind \in DOMAIN INDUSTRY_AGENTS

IndustryAgentIds == UNION {Range(INDUSTRY_AGENTS[i]) : i \in DOMAIN INDUSTRY_AGENTS}

\* get_industry_agent_registry(industry) / AGENT_REGISTRY: the ids of self.agents
Registry(ind) ==
    Range(ALL_AGENT_IDS) \cup (IF IsIndustry(ind) THEN Range(INDUSTRY_AGENTS[ind]) ELSE {})

\* get_industry_agent_ids(industry)
IndustryIds(ind) ==
    IF ~IsIndustry(ind) THEN ALL_AGENT_IDS
    ELSE [i \in 1..Len(ALL_AGENT_IDS) |->
            CASE ALL_AGENT_IDS[i] = "finance" -> INDUSTRY_AGENTS[ind][1]
              [] ALL_AGENT_IDS[i] = "risk"    -> INDUSTRY_AGENTS[ind][2]
              [] OTHER                        -> ALL_AGENT_IDS[i]]

\* agent classes created by create_industry_agent_class
IsIndustryAgent(a) == a \in IndustryAgentIds

\* agents whose stream_response yields an agent_metrics record before agent_done
HasMetrics(a) == a \in {"analyst", "critic", "risk", "synthesizer"} \cup IndustryAgentIds

\* OptimistAgent.stream_response takes no use_reasoning parameter, so the call in
\* run_with_model raises TypeError before the stream yields anything
RaisesAtCall(a) == a = "optimist"

\* self.agents[agent_id].name
AgentName(a) ==
    CASE a = "analyst" -> "Analyst"
      [] a = "optimist" -> "Optimist"
      [] a = "pessimist" -> "Pessimist"
      [] a = "critic" -> "Critic"
      [] a = "strategist" -> "Strategist"
      [] a = "finance" -> "Finance"
      [] a = "risk" -> "Risk"
      [] a = "synthesizer" -> "Synthesizer"
      [] a = "saas_metrics" -> "SaaS Metrics"
      [] a = "saas_growth" -> "Growth Strategy"
      [] OTHER -> a

(***************************************************************************)
(* stream_debate, lines 188-213: the resolved agent set.                   *)
(***************************************************************************)
\* one pass of the loop over selected_agents
ResolveOne(agent_id, ind) ==
    IF agent_id \in Registry(ind) THEN agent_id
    ELSE IF agent_id = "finance" /\ IsIndustry(ind) THEN INDUSTRY_AGENTS[ind][1]
    ELSE IF agent_id = "risk" /\ IsIndustry(ind) THEN INDUSTRY_AGENTS[ind][2]
    ELSE agent_id

\* mutant: synthesizer is not added to a selection that lacks it
ResolveSelectedAsPicked(requested, ind) ==
    IF requested # <<>>
    THEN [i \in 1..Len(requested) |-> ResolveOne(requested[i], ind)]
    ELSE IF ind # "" THEN IndustryIds(ind) ELSE ALL_AGENT_IDS

\* self.selected_agents after lines 188-213; requested = <<>> models None or []
ResolveSelected(requested, ind) ==
    LET picked == IF requested # <<>>
                  THEN [i \in 1..Len(requested) |-> ResolveOne(requested[i], ind)]
                  ELSE IF ind # "" THEN IndustryIds(ind) ELSE ALL_AGENT_IDS
    IN  IF InSeq("synthesizer", picked) THEN picked ELSE Append(picked, "synthesizer")

(***************************************************************************)
(* _build_debate_rounds.                                                   *)
(***************************************************************************)
\* industry_labels.get(self.industry, self.industry) of _build_debate_rounds
RoundIndustryLabel(ind) == IF ind = "saas" THEN "SaaS/Software" ELSE ind

DebateRound(n, name, agents, context_prompt) ==
    [round_num |-> n, name |-> name, agents |-> agents, context_prompt |-> context_prompt]

\* mutant: the defense round does not depend on the challenge round
EmitsDefenseUnchallenged(challenged, defense_agents) == defense_agents # <<>>

\* lines 341-352: the defense round is built inside the branch that built the challenge
\* round, and only `if defense_agents`
EmitsDefense(challenged, defense_agents) == challenged /\ defense_agents # <<>>

\* _build_debate_rounds(self), from self.selected_agents and self.industry
BuildDebateRounds(sel, ind) ==
    LET selected == Range(sel)
        opening_agents == Filter(<<"analyst", "optimist">>, selected)
        challenge_agents == Filter(<<"critic", "pessimist">>, selected)
        defense_agents == Filter(<<"analyst", "optimist">>, selected)
        expert_base == <<"strategist">> \o
                       (IF ind # "" /\ IsIndustry(ind) THEN INDUSTRY_AGENTS[ind]
                        ELSE <<"finance", "risk">>)
        expert_agents == Filter(expert_base, selected)
        industry_prompt == IF ind # "" THEN <<"Apply your", RoundIndustryLabel(ind),
                                              "expertise specifically.">>
                           ELSE <<>>
        r1 == IF opening_agents # <<>>
              THEN <<DebateRound(1, "Opening Arguments", opening_agents, <<"OPENING POSITION">>)>>
              ELSE <<>>
        hasChallenge == challenge_agents # <<>> /\ opening_agents # <<>>
        r2 == IF hasChallenge
              THEN Append(r1, DebateRound(Len(r1) + 1, "Challenge", challenge_agents,
                                          <<"CHALLENGING">>))
              ELSE r1
        r3 == IF EmitsDefense(hasChallenge, defense_agents)
              THEN Append(r2, DebateRound(Len(r2) + 1, "Defense & Rebuttal", defense_agents,
                                          <<"DEFENDING">>))
              ELSE r2
        r4 == IF expert_agents # <<>>
              THEN Append(r3, DebateRound(Len(r3) + 1, "Expert Analysis", expert_agents,
                                          <<"EXPERT PERSPECTIVE">> \o industry_prompt))
              ELSE r3
        r5 == IF "synthesizer" \in selected
              THEN Append(r4, DebateRound(Len(r4) + 1, "Final Verdict", <<"synthesizer">>,
                                          <<"Synthesize ALL rounds">>))
              ELSE r4
    IN  r5

(***************************************************************************)
(* Prompts. A prompt is the list of its lines ("\n".join(parts)); a line   *)
(* is its fixed wording (kind), the number it carries, and the variable    *)
(* texts spliced into it.                                                  *)
(***************************************************************************)
Line(kind, idx, body) == [kind |-> kind, idx |-> idx, body |-> body]

Blank == Line("", 0, <<>>)

RECURSIVE DropThrough(_, _)
\* the rest of s after the first occurrence of x; <<>> if there is none
DropThrough(s, x) ==
    IF s = <<>> THEN <<>>
    ELSE IF Head(s) = x THEN Tail(s) ELSE DropThrough(Tail(s), x)

RECURSIVE StripThinkTags(_)
\* _strip_think_tags on a text held as its chunks: drops each <think>...</think> run
\* and, when a <think> is never closed, everything from it on
StripThinkTags(text) ==
    IF text = <<>> THEN <<>>
    ELSE IF Head(text) = "<think>"
         THEN IF InSeq("</think>", Tail(text))
              THEN StripThinkTags(DropThrough(Tail(text), "</think>"))
              ELSE <<>>
         ELSE <<Head(text)>> \o StripThinkTags(Tail(text))

\* mutant: the items are listed newest first
ConstraintItemsReversed(constraints) ==
    [i \in 1..Len(constraints) |->
        Line("item", i, <<constraints[Len(constraints) + 1 - i]>>)]

\* f"{i}. {constraint}" for i, constraint in enumerate(constraints, 1)
ConstraintItems(constraints) ==
    [i \in 1..Len(constraints) |-> Line("item", i, <<constraints[i]>>)]

\* the "[Name]:" sections of one blackboard round, in insertion order
RoundSections(saved) ==
    Flatten([i \in 1..Len(saved) |->
        << Blank,
           Line("[agent]:", 0, <<AgentName(saved[i][1])>>),
           Line("text", 0, StripThinkTags(saved[i][2])) >>])

\* the rounds _build_debate_context reads: range(1, current_round.round_num)
PriorRounds(round_num) == 1..(round_num - 1)

RECURSIVE RoundBlocks(_, _, _)
\* the "=== ROUND n ===" blocks of rounds n..last that are in the blackboard
RoundBlocks(bb, n, last) ==
    IF n > last THEN <<>>
    ELSE (IF n \in DOMAIN bb
          THEN <<Line("=== ROUND ===", n, <<>>)>> \o RoundSections(bb[n]) \o <<Blank>>
          ELSE <<>>) \o RoundBlocks(bb, n + 1, last)

\* mutant: the context also covers the round it is built for
BuildDebateContextWithCurrent(bb, constraints, round_num) ==
    RoundBlocks(bb, 1, round_num)
    \o (IF constraints # <<>>
        THEN <<Line("=== USER CONSTRAINTS (FOLLOW THESE!) ===", 0, <<>>)>>
             \o ConstraintItems(constraints) \o <<Blank>>
        ELSE <<>>)

\* _build_debate_context(current_round): the lines of the returned string
BuildDebateContext(bb, constraints, round_num) ==
    (IF round_num > 1 THEN RoundBlocks(bb, 1, round_num - 1) ELSE <<>>)
    \o (IF constraints # <<>>
        THEN <<Line("=== USER CONSTRAINTS (FOLLOW THESE!) ===", 0, <<>>)>>
             \o ConstraintItems(constraints) \o <<Blank>>
        ELSE <<>>)

\* industry_labels.get(self.industry, self.industry.title()) of _create_round_prompt
PromptIndustryLabel(ind) ==
    CASE ind = "saas" -> "SaaS / Software"
      [] ind = "space" -> "Space"
      [] OTHER -> ind

\* _create_round_prompt(original_query, round_config, debate_context)
CreateRoundPrompt(query, ind, previous_context, constraints, round_config, debate_context) ==
    (IF ind # ""
     THEN << Line("INDUSTRY CONTEXT:", 0, <<PromptIndustryLabel(ind)>>),
             Line("Tailor all advice specifically to this industry", 0, <<>>),
             Blank >>
     ELSE <<>>)
    \o (IF previous_context # ""
        THEN << Line("=== PREVIOUS CONSULTATION CONTEXT ===", 0, <<>>),
                Line("The user is continuing a consultation session.", 0, <<>>),
                Line("", 0, <<previous_context>>),
                Line("=== END OF PREVIOUS CONTEXT ===", 0, <<>>),
                Blank,
                Line("Now the user has a FOLLOW-UP QUESTION.", 0, <<>>),
                Blank >>
        ELSE <<>>)
    \o << Line("CURRENT QUESTION:", 0, <<query>>), Blank >>
    \o (IF constraints # <<>>
        THEN <<Line("CRITICAL USER CONSTRAINTS (FOLLOW EXACTLY):", 0, <<>>)>>
             \o ConstraintItems(constraints) \o <<Blank>>
        ELSE <<>>)
    \o << Line("CURRENT ROUND:", 0, <<round_config.name>>),
          Line("YOUR TASK:", 0, round_config.context_prompt) >>
    \o (IF debate_context # <<>>
        THEN << Blank, Line("=== DEBATE SO FAR ===", 0, <<>>) >>
             \o debate_context
             \o << Line("=== END OF PRIOR DEBATE ===", 0, <<>>),
                   Blank,
                   Line("Now respond to the above.", 0, <<>>) >>
        ELSE <<>>)

(***************************************************************************)
(* The debate: requests, records, tasks.                                   *)
(***************************************************************************)
\* stream_debate's model_map and its default
ModelFor(tier) ==
    CASE tier = "fast" -> "llama3.1-8b"
      [] tier = "pro"  -> "gpt-oss-120b"
      [] OTHER         -> "llama3.1-8b"

\* fallback_model_id passed to _run_round
FallbackModelId == "llama3.1-8b"

\* the query and previous context of the start_debate commands the model sends
Query == "q"

PreviousContext == ""

\* the start_debate commands the model sends: tier, industry, selectedAgents
Requests ==
    { [model |-> "pro",  industry |-> "",     selectedAgents |-> <<"analyst", "optimist">>],
      [model |-> "fast", industry |-> "",     selectedAgents |-> <<"synthesizer">>],
      [model |-> "pro",  industry |-> "saas", selectedAgents |-> <<"saas_metrics">>] }

\* the constraint texts the client injects
ConstraintTexts == {"c1", "c2"}

(***************************************************************************)
(* Frames of the session (main.py). A text is held as its characters, or    *)
(* as chunks of which a constraint or query body is one.                   *)
(***************************************************************************)
Letters ==
    {"a", "b", "c", "d", "e", "f", "g", "h", "i", "j", "k", "l", "m", "n", "o", "p", "q",
     "r", "s", "t", "u", "v", "w", "x", "y", "z", "A", "B", "C", "D", "E", "F", "G", "H",
     "I", "J", "K", "L", "M", "N", "O", "P", "Q", "R", "S", "T", "U", "V", "W", "X", "Y",
     "Z"}

Digits == {"0", "1", "2", "3", "4", "5", "6", "7", "8", "9"}

\* the characters str.strip() removes
Whitespace == {" ", "\t", "\n", "\r"}

RECURSIVE LStrip(_)
LStrip(s) == IF s # <<>> /\ Head(s) \in Whitespace THEN LStrip(Tail(s)) ELSE s

RECURSIVE RStrip(_)
RStrip(s) ==
    IF s # <<>> /\ s[Len(s)] \in Whitespace THEN RStrip(SubSeq(s, 1, Len(s) - 1)) ELSE s

\* str.strip()
Strip(s) == RStrip(LStrip(s))

\* is_valid_api_key: re.match(r"^csk-[A-Za-z0-9]{10,}$", api_key); $ also matches before
\* one trailing newline
IsValidApiKey(api_key) ==
    LET k == IF api_key # <<>> /\ api_key[Len(api_key)] = "\n"
             THEN SubSeq(api_key, 1, Len(api_key) - 1) ELSE api_key
    IN  /\ Len(k) >= 14
        /\ SubSeq(k, 1, 4) = <<"c", "s", "k", "-">>
        /\ \A i \in 5..Len(k) : k[i] \in Letters \cup Digits

\* apiKey fields: none, and a well-formed key
NoKey == <<>>

UserKey == <<"c", "s", "k", "-", "a", "B", "3", "d", "E", "6", "g", "H", "9", "j">>

\* the query field of a start_debate frame whose query is Query
QueryText == <<Query>>

NoRequest == [model |-> "", industry |-> "", selectedAgents |-> <<>>]

\* a frame as websocket.receive_text() returns it: kind "json" is the text of a JSON
\* object with these fields, kind "text" a text json.loads rejects
Frame(kind, type, req, query, apiKey, constraint) ==
    [kind |-> kind, type |-> type, req |-> req, query |-> query, apiKey |-> apiKey,
     constraint |-> constraint]

NoFrame == Frame("none", "", NoRequest, <<>>, <<>>, <<>>)

StartFrame(req, query, apiKey) == Frame("json", "start_debate", req, query, apiKey, <<>>)

InjectFrame(constraint) == Frame("json", "inject_constraint", NoRequest, <<>>, <<>>, constraint)

\* create_error(message) and the constraint_acknowledged record
ErrorReply(message) == [type |-> "error", text |-> message]

AckReply(constraint) == [type |-> "constraint_acknowledged", text |-> constraint]

\* mutant: every start_debate command is accepted
RejectionNone(frame, key_configured) == ""

\* main.py lines 144-161: the error a start_debate command is rejected with, "" if it is
\* accepted
Rejection(frame, key_configured) ==
    LET api_key == Strip(frame.apiKey) IN
    IF api_key # <<>> /\ ~IsValidApiKey(api_key) THEN "Invalid API key format"
    ELSE IF api_key = <<>> /\ ~key_configured THEN "Server is missing CEREBRAS_API_KEY"
    ELSE IF Strip(frame.query) = <<>> THEN "Query cannot be empty"
    ELSE ""

\* stream_task.done()
StreamDone(p) == p \in {"finished", "cancelled"}

\* mutant: the stream task is left running
CancelStreamNot(p) == p

\* `if stream_task and not stream_task.done(): stream_task.cancel()`: the task is marked
\* for cancellation
CancelStream(p) == IF p = "idle" \/ StreamDone(p) THEN p ELSE "cancelling"

\* the task's next step: CancelledError is raised at its await and caught by run_stream
\* (main.py 117-118)
Delivered(p) == IF p = "cancelling" THEN "cancelled" ELSE p

\* a record yielded downstream; n carries round / phase / totalTokens
Rec(type, agentId, content, n) ==
    [type |-> type, agentId |-> agentId, content |-> content, n |-> n]

TokenRec(a, c) == Rec("agent_token", a, c, 0)

MetricsRec(a) == Rec("agent_metrics", a, "", 0)

DoneRec(a) == Rec("agent_done", a, "", 0)

ErrorRec(a) == Rec("agent_error", a, "", 0)

\* a stream_agent task as created by asyncio.create_task. run counts the calls of
\* run_with_model, ntok the chunks of the current upstream stream; err1 (the error text
\* the first run returned), failed (agent_error was surfaced) and put (agent_token
\* records queued) are history.
NewTask(model_to_use) ==
    [st |-> "running", run |-> 1, sent_any |-> FALSE, ntok |-> 0,
     model |-> model_to_use, err1 |-> "", error_text |-> "", failed |-> FALSE,
     put |-> 0]

\* task.cancel() on every running task
CancelAll(ts) ==
    [a \in DOMAIN ts |-> IF ts[a].st = "running" THEN [ts[a] EXCEPT !.st = "cancelled"]
                         ELSE ts[a]]

\* mutant: the primary model is not compared with the fallback
ShouldRetrySameModel(error_text, fallback_model_id, model_to_use) ==
    /\ error_text # ""
    /\ fallback_model_id # ""
    /\ IsRetryableError(error_text)

\* the condition of line 574
ShouldRetry(error_text, fallback_model_id, model_to_use) ==
    /\ error_text # ""
    /\ fallback_model_id # ""
    /\ model_to_use # fallback_model_id
    /\ IsRetryableError(error_text)

\* mutant: the first-token check is dropped, error tokens are queued like any other
ReturnsErrorNever(sent_any, content) == FALSE

\* run_with_model, line 563: the token is returned as the error text instead of queued
ReturnsError(sent_any, content) == ~sent_any /\ IsErrorContent(content)

(***************************************************************************)
(* The legacy Blackboard (orchestrator/blackboard.py). A content is held   *)
(* as its chunks, each a word or a run of whitespace.                      *)
(***************************************************************************)
\* Blackboard.__init__'s default max_tokens
DefaultMaxTokens == 2000

\* Blackboard.__init__(max_tokens)
\* no _run_round call has been abandoned yet
NoOrphans == orphans = {} /\ abandoned = <<>>

\* no second session has sent a command yet
OtherIdle == other_commands = 0

BlackboardNew(limit) ==
    /\ entries = <<>>
    /\ max_tokens = limit
    /\ appended = <<>>

BlackboardEntry(agent_id, content, timestamp, is_user_constraint) ==
    [agent_id |-> agent_id, content |-> content, timestamp |-> timestamp,
     is_user_constraint |-> is_user_constraint]

RECURSIVE SelectEntries(_, _)
\* [e for e in es if e.is_user_constraint == flag]
SelectEntries(es, flag) ==
    IF es = <<>> THEN <<>>
    ELSE (IF Head(es).is_user_constraint = flag THEN <<Head(es)>> ELSE <<>>)
         \o SelectEntries(Tail(es), flag)

\* len(text.split()) of one content: its chunks that are not whitespace
WordCount(content) == Cardinality({i \in 1..Len(content) : content[i] \notin Whitespace})

RECURSIVE TotalWords(_)
\* len(" ".join(e.content for e in es).split())
TotalWords(es) ==
    IF es = <<>> THEN 0 ELSE WordCount(Head(es).content) + TotalWords(Tail(es))

\* _estimate_tokens on a text of n words: int(n * 1.3 + 0.5)
EstimateTokens(n) == (13 * n + 5) \div 10

RECURSIVE InsertByTimestamp(_, _)
\* e put into the sorted list s behind every entry that is not newer than it
InsertByTimestamp(s, e) ==
    IF s = <<>> THEN <<e>>
    ELSE IF Head(s).timestamp <= e.timestamp
         THEN <<Head(s)>> \o InsertByTimestamp(Tail(s), e)
         ELSE <<e>> \o s

RECURSIVE SortedByTimestamp(_)
\* sorted(es, key=lambda e: e.timestamp): stable
SortedByTimestamp(es) ==
    IF es = <<>> THEN <<>>
    ELSE InsertByTimestamp(SortedByTimestamp(SubSeq(es, 1, Len(es) - 1)), es[Len(es)])

\* mutant: at most one agent entry is dropped per append
DropOldestOnce(agent_entries, user_entries, current_tokens, limit) ==
    IF current_tokens > limit /\ agent_entries # <<>>
    THEN Tail(agent_entries)
    ELSE agent_entries

RECURSIVE DropOldest(_, _, _, _)
\* the while loop of _truncate_if_needed: what is left of agent_entries
DropOldest(agent_entries, user_entries, current_tokens, limit) ==
    IF current_tokens > limit /\ agent_entries # <<>>
    THEN DropOldest(Tail(agent_entries), user_entries,
                    EstimateTokens(TotalWords(Tail(agent_entries) \o user_entries)), limit)
    ELSE agent_entries

RECURSIVE TruncateAnyEntry(_, _)
\* mutant: the oldest entries are dropped whatever their kind
TruncateAnyEntry(es, limit) ==
    IF EstimateTokens(TotalWords(es)) > limit /\ es # <<>>
    THEN TruncateAnyEntry(Tail(es), limit)
    ELSE es

\* get_token_count(self), on self.entries = es
GetTokenCount(es) == EstimateTokens(TotalWords(es))

\* _truncate_if_needed(self), on self.entries = es and self.max_tokens = limit
TruncateIfNeeded(es, limit) ==
    LET user_entries == SelectEntries(es, TRUE)
        agent_entries == SelectEntries(es, FALSE)
        kept == DropOldest(agent_entries, user_entries, EstimateTokens(TotalWords(es)), limit)
    IN  SortedByTimestamp(kept \o user_entries)

\* the state once the endpoint has accepted the connection: no stream task, the
\* orchestrator as DebateOrchestrator() built it (main.py 41, 88-94)
Connected(key_configured) ==
    /\ pc = "idle"
    /\ model_id = ""
    /\ industry = ""
    /\ selected_agents = ALL_AGENT_IDS
    /\ debate_rounds = <<>>
    /\ round_index = 0
    /\ current_round_num = 0
    /\ interrupt_event = "none"
    /\ user_constraints = <<>>
    /\ blackboard = <<>>
    /\ token_count = 0
    /\ enriched_query = <<>>
    /\ queue = <<>>
    /\ tasks = <<>>
    /\ agents_done = 0
    /\ agent_buffers = <<>>
    /\ snapshots = 0
    /\ out = <<>>
    /\ roundStarts = <<>>
    /\ restarts = 0
    /\ roundDone = <<>>
    /\ injected = <<>>
    /\ completes = 0
    /\ handler = "receiving"
    /\ received = NoFrame
    /\ reply = <<>>
    /\ prior = "none"
    /\ server_key = key_configured
    /\ stream_count = 0

Init == Connected(TRUE) /\ BlackboardNew(DefaultMaxTokens) /\ NoOrphans /\ OtherIdle

roundVars == <<queue, tasks, agents_done, agent_buffers, snapshots>>

sessionVars == <<handler, received, reply, prior, server_key, stream_count>>

boardVars == <<entries, max_tokens, appended>>

orphanVars == <<orphans, abandoned>>

otherVars == <<other_commands>>

debateVars == <<model_id, industry, selected_agents, debate_rounds>>

(***************************************************************************)
(* stream_debate.                                                          *)
(***************************************************************************)
\* mutant: the except branch also advances to the next round
IndexAfterRestartSkips(idx) == idx + 1

\* the round the loop runs after RoundRestartRequested: `continue` without round_index += 1
IndexAfterRestart(idx) == idx

\* The head of the while loop of stream_debate (lines 237-250) up to the yield of
\* round_start, or, when the plan is exhausted, lines 296-316 up to the yield of
\* debate_complete. rounds and ev are the plan and the latch as the loop finds them,
\* starts and sent the history so far.
LoopTop(idx, rounds, ev, newRound, starts, sent) ==
    /\ round_index' = idx
    /\ IF idx < Len(rounds)
       THEN /\ current_round_num' = rounds[idx + 1].round_num
            /\ interrupt_event' = IF ev = "set" THEN "clear" ELSE ev
            /\ out' = <<Rec("round_start", "", rounds[idx + 1].name, rounds[idx + 1].round_num)>>
            /\ roundStarts' = Append(starts, rounds[idx + 1].round_num)
            /\ roundDone' = IF newRound
                            THEN [a \in Range(rounds[idx + 1].agents) |-> 0]
                            ELSE roundDone
            /\ completes' = sent
            /\ pc' = "y_round_start"
       ELSE /\ current_round_num' = 0
            /\ interrupt_event' = ev
            /\ out' = <<Rec("debate_complete", "", "", token_count)>>
            /\ roundStarts' = starts
            /\ roundDone' = roundDone
            /\ completes' = sent + 1
            /\ pc' = "y_complete"

\* stream_debate lines 175-250: the new stream task runs to its first yield
BeginDebate(req) ==
    /\ model_id' = ModelFor(req.model)
    /\ industry' = req.industry
    /\ selected_agents' = ResolveSelected(req.selectedAgents, req.industry)
    /\ debate_rounds' = BuildDebateRounds(selected_agents', industry')
    /\ user_constraints' = <<>>
    /\ injected' = <<>>
    /\ blackboard' = <<>>
    /\ token_count' = 0
    /\ restarts' = 0
    /\ LoopTop(0, debate_rounds', "clear", TRUE, <<>>, 0)
    /\ UNCHANGED <<enriched_query, roundVars, otherVars, orphanVars, boardVars>>

\* main.py lines 138-177 and stream_debate lines 175-250: a start_debate command is
\* accepted, the debate task starts and runs to its first yield
StartDebate(req) ==
    /\ pc = "idle"
    /\ handler = "receiving"
    /\ Rejection(StartFrame(req, QueryText, NoKey), server_key) = ""
    /\ received' = StartFrame(req, QueryText, NoKey)
    /\ reply' = <<>>
    /\ stream_count' = stream_count + 1
    /\ UNCHANGED <<handler, prior, server_key>>
    /\ BeginDebate(req)

\* mutant: the round is entered without a phase_start record
EmitPhaseStartSkipped ==
    /\ pc = "y_round_start"
    /\ pc' = "y_phase_start"
    /\ UNCHANGED <<otherVars, orphanVars, boardVars, sessionVars, debateVars, round_index, current_round_num, interrupt_event,
                   user_constraints, blackboard, token_count, enriched_query, roundVars,
                   out, roundStarts, restarts, roundDone, injected, completes>>

\* lines 252-259: resumed after round_start, the generator yields phase_start
EmitPhaseStart ==
    /\ pc = "y_round_start"
    /\ out' = Append(out, Rec("phase_start", "", debate_rounds[round_index + 1].name,
                              debate_rounds[round_index + 1].round_num))
    /\ pc' = "y_phase_start"
    /\ UNCHANGED <<otherVars, orphanVars, boardVars, sessionVars, debateVars, round_index, current_round_num, interrupt_event,
                   user_constraints, blackboard, token_count, enriched_query, roundVars,
                   roundStarts, restarts, roundDone, injected, completes>>

(***************************************************************************)
(* _run_round.                                                             *)
(***************************************************************************)
RoundConfig == debate_rounds[round_index + 1]

TotalAgents == Len(RoundConfig.agents)

\* The head of the while loop of _run_round (lines 620-632), entered with done agents
\* counted, latch ev and tasks ts: leave the loop, cancel for a restart, or wait.
LoopCheck(done, ev, ts) ==
    IF done < TotalAgents
    THEN IF ev = "set"
         THEN /\ interrupt_event' = "clear"
              /\ tasks' = CancelAll(ts)
              /\ pc' = "cancel_wait"
         ELSE /\ interrupt_event' = ev
              /\ tasks' = ts
              /\ pc' = "wait_queue"
    ELSE /\ interrupt_event' = ev
         /\ tasks' = ts
         /\ pc' = "gather"

\* lines 263-285 and 530-632: resumed after phase_start, the prompt is built, the
\* round's state set up and the agent tasks created, up to the first await
RunRound ==
    /\ pc = "y_phase_start"
    /\ enriched_query' =
         CreateRoundPrompt(Query, industry, PreviousContext, user_constraints, RoundConfig,
             BuildDebateContext(blackboard, user_constraints, RoundConfig.round_num))
    /\ blackboard' = [k \in DOMAIN blackboard \cup {RoundConfig.round_num} |->
                         IF k = RoundConfig.round_num THEN <<>> ELSE blackboard[k]]
    /\ queue' = <<>>
    /\ agents_done' = 0
    /\ agent_buffers' = [a \in Range(RoundConfig.agents) |-> <<>>]
    /\ snapshots' = 0
    /\ LoopCheck(0, interrupt_event,
                 [a \in Range(RoundConfig.agents) \cap Registry(industry) |-> NewTask(model_id)])
    /\ UNCHANGED <<otherVars, orphanVars, boardVars, sessionVars, debateVars, round_index, current_round_num, user_constraints,
                   token_count, out, roundStarts, restarts, roundDone, injected, completes>>

\* self.blackboard[round_num][agent_id] = text: a dict keeps a key's first position
PutFinal(saved, a, text) ==
    IF \E i \in 1..Len(saved) : saved[i][1] = a
    THEN [i \in 1..Len(saved) |-> IF saved[i][1] = a THEN <<a, text>> ELSE saved[i]]
    ELSE Append(saved, <<a, text>>)

\* mutant: the buffer is saved on every record of the agent, not only on agent_done
SavesToBlackboardAlways(type, a, buffers) == a \in DOMAIN buffers

\* lines 634-641: token["type"] == "agent_done" and agent_id in agent_buffers
SavesToBlackboard(type, a, buffers) == type = "agent_done" /\ a \in DOMAIN buffers

\* mutant: the queue hands out its newest record
QueueGetNewest(q) == [token |-> q[Len(q)], rest |-> SubSeq(q, 1, Len(q) - 1)]

\* line 632, queue.get() on the asyncio.Queue of line 533: the oldest record and the
\* queue without it
QueueGet(q) == [token |-> Head(q), rest |-> Tail(q)]

\* mutant: error tokens are buffered like any other token
BufferedAnyToken(type, content) == type = "agent_token"

\* lines 700-703 and 716: the content of an agent_token that does not start with
\* "[Error:" is appended to the agent's buffer
Buffered(type, content) == type = "agent_token" /\ ~IsErrorContent(content)

\* line 641 on a blackboard that has lost the round's dict: the subscript raises KeyError
StoreRaises(token) ==
    /\ SavesToBlackboard(token.type, token.agentId, agent_buffers)
    /\ RoundConfig.round_num \notin DOMAIN blackboard

\* mutant: only the tokens that are buffered are counted
CountsTokenBuffered(type, content) == type = "agent_token" /\ ~IsErrorContent(content)

\* lines 701 and 717: self.token_count += 1 for every record of type agent_token
CountsToken(type, content) == type = "agent_token"

\* lines 632-719: a record is dequeued, accounted for and yielded downstream
Dequeue ==
    /\ pc = "wait_queue"
    /\ queue # <<>>
    /\ ~StoreRaises(QueueGet(queue).token)
    /\ LET token == QueueGet(queue).token
           a == token.agentId
       IN  /\ queue' = QueueGet(queue).rest
           /\ agents_done' = IF token.type = "agent_done" THEN agents_done + 1
                             ELSE agents_done
           /\ blackboard' =
                IF SavesToBlackboard(token.type, a, agent_buffers)
                THEN [blackboard EXCEPT ![RoundConfig.round_num] =
                         PutFinal(@, a, agent_buffers[a])]
                ELSE blackboard
           /\ agent_buffers' =
                IF Buffered(token.type, token.content)
                THEN [agent_buffers EXCEPT ![a] = Append(@, token.content)]
                ELSE agent_buffers
           /\ token_count' = IF CountsToken(token.type, token.content)
                             THEN token_count + 1
                             ELSE token_count
           /\ roundDone' = IF token.type = "agent_done"
                           THEN [roundDone EXCEPT ![a] = @ + 1]
                           ELSE roundDone
           /\ out' = Append(out, token)
    /\ pc' = "y_msg"
    /\ UNCHANGED <<otherVars, orphanVars, boardVars, sessionVars, debateVars, round_index, current_round_num, interrupt_event,
                   user_constraints, enriched_query, tasks, snapshots, roundStarts,
                   restarts, injected, completes>>

\* lines 721-732: resumed after a yield, 500 ms have passed and a snapshot is yielded
Snapshot ==
    /\ pc = "y_msg"
    /\ snapshots < MaxSnapshots
    /\ snapshots' = snapshots + 1
    /\ out' = Append(out, Rec("metrics", "", "", token_count))
    /\ pc' = "y_metrics"
    /\ UNCHANGED <<otherVars, orphanVars, boardVars, sessionVars, debateVars, round_index, current_round_num, interrupt_event,
                   user_constraints, blackboard, token_count, enriched_query, queue, tasks,
                   agents_done, agent_buffers, roundStarts, restarts, roundDone, injected,
                   completes>>

\* resumed after a yield with no snapshot due: back to the head of the while loop
ResumeLoop ==
    /\ pc \in {"y_msg", "y_metrics"}
    /\ LoopCheck(agents_done, interrupt_event, tasks)
    /\ UNCHANGED <<otherVars, orphanVars, boardVars, sessionVars, debateVars, round_index, current_round_num, user_constraints,
                   blackboard, token_count, enriched_query, queue, agents_done,
                   agent_buffers, snapshots, out, roundStarts, restarts, roundDone,
                   injected, completes>>

\* lines 734-744: queue.get() timed out after 100 ms and the latch is set
TimeoutInterrupt ==
    /\ pc = "wait_queue"
    /\ queue = <<>>
    /\ interrupt_event = "set"
    /\ interrupt_event' = "clear"
    /\ tasks' = CancelAll(tasks)
    /\ pc' = "cancel_wait"
    /\ UNCHANGED <<otherVars, orphanVars, boardVars, sessionVars, debateVars, round_index, current_round_num, user_constraints,
                   blackboard, token_count, enriched_query, queue, agents_done,
                   agent_buffers, snapshots, out, roundStarts, restarts, roundDone,
                   injected, completes>>

\* _run_round has returned or raised: its queue, tasks and counters are gone
RoundLocalsGone ==
    /\ queue' = <<>>
    /\ tasks' = <<>>
    /\ agents_done' = 0
    /\ agent_buffers' = <<>>
    /\ snapshots' = 0

\* mutant: the restart leaves the entries of the interrupted attempt in place
ClearRoundKeeps(bb, k) == bb

\* mutant: the restart empties the whole blackboard
ClearRoundAll(bb, k) == [j \in DOMAIN bb |-> <<>>]

\* line 291: self.blackboard[round_config.round_num] = {}
ClearRound(bb, k) == [j \in DOMAIN bb \cup {k} |-> IF j = k THEN <<>> ELSE bb[j]]

\* lines 627-630 / 741-744 and 287-292, then the loop head: asyncio.wait returns, the
\* queue is drained, RoundRestartRequested is raised and handled, the round re-entered
RoundRestarts ==
    /\ pc = "cancel_wait"
    /\ RoundLocalsGone
    /\ blackboard' = ClearRound(blackboard, RoundConfig.round_num)
    /\ restarts' = restarts + 1
    /\ LoopTop(IndexAfterRestart(round_index), debate_rounds, interrupt_event, FALSE,
               roundStarts, completes)
    /\ UNCHANGED <<otherVars, boardVars, sessionVars, debateVars, user_constraints, token_count,
                   enriched_query, injected>>

\* the restart after asyncio.wait found every cancelled task finished
RestartRound == RoundRestarts /\ UNCHANGED orphanVars

\* lines 766-776 and 294, then the loop head: gather returns, the round is over
FinishRound ==
    /\ pc = "gather"
    /\ \A a \in DOMAIN tasks : tasks[a].st # "running"
    /\ LoopTop(round_index + 1, debate_rounds, interrupt_event, TRUE, roundStarts, completes)
    /\ RoundLocalsGone
    /\ UNCHANGED <<otherVars, orphanVars, boardVars, sessionVars, debateVars, user_constraints, blackboard, token_count, enriched_query,
                   restarts, injected>>

(***************************************************************************)
(* run_stream after the generator is exhausted (main.py 115-116).          *)
(***************************************************************************)
\* frames of type debate_complete sent once run_stream has sent its own
HandlerCompletes(sent) == sent + 1

\* resumed after debate_complete: the generator returns and run_stream sends
\* create_debate_complete()
SendHandlerComplete ==
    /\ pc = "y_complete"
    /\ completes' = HandlerCompletes(completes)
    /\ pc' = "h_complete"
    /\ UNCHANGED <<otherVars, orphanVars, boardVars, sessionVars, debateVars, round_index, current_round_num, interrupt_event,
                   user_constraints, blackboard, token_count, enriched_query, roundVars,
                   out, roundStarts, restarts, roundDone, injected>>

\* the send returns and run_stream ends
StreamTaskEnds ==
    /\ pc = "h_complete"
    /\ pc' = "finished"
    /\ UNCHANGED <<otherVars, orphanVars, boardVars, sessionVars, debateVars, round_index, current_round_num, interrupt_event,
                   user_constraints, blackboard, token_count, enriched_query, roundVars,
                   out, roundStarts, restarts, roundDone, injected, completes>>

(***************************************************************************)
(* stream_agent and the agents' stream_response generators. queue.put on   *)
(* the unbounded queue never suspends, so the records an agent yields      *)
(* between two upstream chunks are queued in one step.                     *)
(***************************************************************************)
Running(a) == a \in DOMAIN tasks /\ tasks[a].st = "running"

agentFrame == <<pc, otherVars, orphanVars, boardVars, sessionVars, debateVars, round_index, current_round_num, interrupt_event,
                user_constraints, blackboard, token_count, enriched_query, agents_done,
                agent_buffers, snapshots, out, roundStarts, restarts, roundDone, injected,
                completes>>

\* lines 582-594 / 595-607: the task surfaces agent_error and a synthetic agent_done
SurfaceError(a) == <<ErrorRec(a), DoneRec(a)>>

\* lines 573-594, run_with_model having returned error_text: retry on the fallback
\* model, or surface the error and end
AfterErrorReturn(a, error_text) ==
    LET t == tasks[a] IN
    IF t.run = 1 /\ ShouldRetry(error_text, FallbackModelId, model_id)
    THEN /\ tasks' = [tasks EXCEPT ![a] =
                        [t EXCEPT !.run = 2, !.sent_any = FALSE, !.ntok = 0,
                                  !.model = FallbackModelId, !.err1 = error_text,
                                  !.error_text = error_text]]
         /\ queue' = queue
    ELSE /\ tasks' = [tasks EXCEPT ![a] =
                        [t EXCEPT !.st = "ended", !.error_text = error_text,
                                  !.failed = TRUE,
                                  !.err1 = IF t.run = 1 THEN error_text ELSE @]]
         /\ queue' = queue \o SurfaceError(a)

\* agent.stream_response(...) raises when called (optimist.py:33 against debate.py:556);
\* stream_agent's except branch surfaces it
AgentRaises(a) ==
    /\ Running(a)
    /\ RaisesAtCall(a)
    /\ tasks' = [tasks EXCEPT ![a].st = "ended", ![a].failed = TRUE]
    /\ queue' = queue \o SurfaceError(a)
    /\ UNCHANGED agentFrame

\* the upstream yields a chunk and the agent an agent_token, which is queued
AgentToken(a) ==
    /\ Running(a)
    /\ ~RaisesAtCall(a)
    /\ tasks[a].ntok < MaxTokens
    /\ tasks' = [tasks EXCEPT ![a].ntok = @ + 1, ![a].sent_any = TRUE, ![a].put = @ + 1]
    /\ queue' = Append(queue, TokenRec(a, OkContent))
    /\ UNCHANGED agentFrame

\* the terminal records of a stream that ended normally (analyst.py 117-125,
\* finance.py 69, industry.py 104-111)
FinishRecords(a) ==
    (IF HasMetrics(a) THEN <<MetricsRec(a)>> ELSE <<>>) \o <<DoneRec(a)>>

\* the upstream stream ends: agent_metrics (for the agents that send one) and
\* agent_done are yielded and queued, run_with_model returns None, the task ends
AgentFinish(a) ==
    /\ Running(a)
    /\ ~RaisesAtCall(a)
    /\ tasks' = [tasks EXCEPT ![a].st = "ended", ![a].error_text = ""]
    /\ queue' = queue \o FinishRecords(a)
    /\ UNCHANGED agentFrame

\* the upstream fails with e in a generic agent: its except branch yields the token
\* "[Error: e]" and agent_done (analyst.py 127-130)
GenericAgentFails(a, e) ==
    /\ Running(a)
    /\ ~RaisesAtCall(a)
    /\ ~IsIndustryAgent(a)
    /\ IF ReturnsError(tasks[a].sent_any, e)
       THEN AfterErrorReturn(a, e)
       ELSE /\ tasks' = [tasks EXCEPT ![a].st = "ended", ![a].sent_any = TRUE,
                                      ![a].error_text = "", ![a].put = @ + 1]
            /\ queue' = queue \o <<TokenRec(a, e), DoneRec(a)>>
    /\ UNCHANGED agentFrame

\* the upstream fails with e in an industry agent: its except branch yields one record
\* of type "error" and the generator ends (industry.py 114-116)
IndustryAgentFails(a, e) ==
    /\ Running(a)
    /\ IsIndustryAgent(a)
    /\ tasks' = [tasks EXCEPT ![a].st = "ended", ![a].error_text = ""]
    /\ queue' = Append(queue, Rec("error", a, e, 0))
    /\ UNCHANGED agentFrame

(***************************************************************************)
(* inject_constraint (main.py 179-193, debate.py 144-151).                 *)
(***************************************************************************)
\* mutant: the constraint only sets the latch
AppendConstraintDropped(constraints, c) == constraints

\* mutant: a text already in the list is not appended again
AppendConstraintOnce(constraints, c) ==
    IF InSeq(c, constraints) THEN constraints ELSE Append(constraints, c)

\* self.user_constraints.append(constraint)
AppendConstraint(constraints, c) == Append(constraints, c)

InjectWithin(c, limit) ==
    /\ handler = "receiving"
    /\ Len(injected) < limit
    /\ Strip(<<" ", c, "\n">>) = <<c>>
    /\ received' = InjectFrame(<<" ", c, "\n">>)
    /\ reply' = <<AckReply(c)>>
    /\ UNCHANGED <<handler, prior, server_key, stream_count, otherVars, orphanVars, boardVars>>
    /\ user_constraints' = AppendConstraint(user_constraints, c)
    /\ injected' = Append(injected, c)
    /\ interrupt_event' = IF interrupt_event # "none" /\ current_round_num # 0
                          THEN "set" ELSE interrupt_event
    /\ UNCHANGED <<pc, debateVars, round_index, current_round_num, blackboard, token_count,
                   enriched_query, roundVars, out, roundStarts, restarts, roundDone,
                   completes>>

Inject(c) == InjectWithin(c, MaxInjects)

(***************************************************************************)
(* Specifications.                                                         *)
(***************************************************************************)
Agents == Range(ALL_AGENT_IDS) \cup IndustryAgentIds

DebateStep ==
    \/ \E req \in Requests : StartDebate(req)
    \/ EmitPhaseStart
    \/ RunRound
    \/ Dequeue
    \/ Snapshot
    \/ ResumeLoop
    \/ FinishRound
    \/ SendHandlerComplete
    \/ StreamTaskEnds

AgentStep ==
    \/ \E a \in Agents : AgentRaises(a)
    \/ \E a \in Agents : AgentToken(a)
    \/ \E a \in Agents : AgentFinish(a)
    \/ \E a \in Agents, e \in UpstreamErrors : GenericAgentFails(a, e)
    \/ \E a \in Agents, e \in UpstreamErrors : IndustryAgentFails(a, e)

InterruptStep ==
    \/ \E c \in ConstraintTexts : Inject(c)
    \/ TimeoutInterrupt
    \/ RestartRound

Next == DebateStep \/ AgentStep \/ InterruptStep

Spec == Init /\ [][Next]_vars

(***************************************************************************)
(* Tasks that outlive the cancellation wait (debate.py 531, 547-568,       *)
(* 624-630): asyncio.wait(running_tasks, timeout=1) returns after one      *)
(* second whether or not the cancelled tasks have finished.                *)
(***************************************************************************)
\* records the tasks of abandoned calls put before they finish
MaxAbandoned == 2

\* mutant: the tasks put into the queue the round executor currently reads
OrphanQueuePutShared(own, current, token) ==
    [own |-> own, current |-> Append(current, token)]

\* await queue.put(token) at line 566: `queue` is the local of the _run_round call
\* that created the task (line 531), not the queue of the call that runs now
OrphanQueuePut(own, current, token) ==
    [own |-> Append(own, token), current |-> current]

\* lines 627-630 / 741-744 with the wait timing out: the tasks in `left` are still
\* unwinding when RoundRestartRequested is raised
RestartRoundTimedOut ==
    /\ RoundRestarts
    /\ \E left \in (SUBSET {a \in DOMAIN tasks : tasks[a].st = "cancelled"}) \ {{}} :
          orphans' = orphans \cup left
    /\ UNCHANGED abandoned

orphanFrame == <<pc, otherVars, boardVars, sessionVars, debateVars, round_index, current_round_num,
                 interrupt_event, user_constraints, blackboard, token_count,
                 enriched_query, tasks, agents_done, agent_buffers, snapshots, out,
                 roundStarts, restarts, roundDone, injected, completes>>

\* a task of an abandoned call gets one more chunk before the cancellation reaches it
OrphanPut(a) ==
    /\ a \in orphans
    /\ Len(abandoned) < MaxAbandoned
    /\ LET after == OrphanQueuePut(abandoned, queue, TokenRec(a, OkContent))
       IN  abandoned' = after.own /\ queue' = after.current
    /\ UNCHANGED <<orphans, orphanFrame>>

\* the cancellation reaches the task and it finishes
OrphanEnds(a) ==
    /\ a \in orphans
    /\ orphans' = orphans \ {a}
    /\ UNCHANGED <<abandoned, queue, orphanFrame>>

OrphanStep ==
    \/ RestartRoundTimedOut
    \/ \E a \in Agents : OrphanPut(a)
    \/ \E a \in Agents : OrphanEnds(a)

OrphanNext == Next \/ OrphanStep

OrphanSpec == Init /\ [][OrphanNext]_vars

(***************************************************************************)
(* Two sessions on the one orchestrator of the process (main.py 41): the   *)
(* debate of the session modelled so far, and a second session whose       *)
(* handler passes its commands to the same object. The second session's    *)
(* debate task is followed to its first yield, where it waits on its send. *)
(***************************************************************************)
\* commands of the second session
MaxOtherCommands == 2

\* start_debate commands of the second session
OtherRequests ==
    { [model |-> "fast", industry |-> "",     selectedAgents |-> <<"synthesizer">>],
      [model |-> "pro",  industry |-> "saas", selectedAgents |-> <<"saas_metrics">>] }

\* the first session's stream task is neither unstarted nor over
InFlight == pc \notin {"idle", "finished", "cancelled", "cancelling", "errored"}

\* the frame of the first session's debate task: locals of its stream_debate and
\* _run_round calls, its records and the session's own state
otherFrame == <<pc, model_id, debate_rounds, round_index, enriched_query, roundVars, out,
                roundStarts, restarts, roundDone, injected, completes, sessionVars,
                boardVars, orphanVars>>

\* main.py 179-185 in the second session: orchestrator.inject_constraint(constraint)
OtherInject(c) ==
    /\ other_commands < MaxOtherCommands
    /\ other_commands' = other_commands + 1
    /\ user_constraints' = AppendConstraint(user_constraints, c)
    /\ interrupt_event' = IF interrupt_event # "none" /\ current_round_num # 0
                          THEN "set" ELSE interrupt_event
    /\ UNCHANGED <<industry, selected_agents, current_round_num, blackboard, token_count,
                   otherFrame>>

\* main.py 138-177 in the second session and stream_debate lines 175-250 of its task:
\* the fields of the orchestrator are reset and set for the new debate
OtherStartDebate(req) ==
    /\ other_commands < MaxOtherCommands
    /\ other_commands' = other_commands + 1
    /\ token_count' = 0
    /\ blackboard' = <<>>
    /\ user_constraints' = <<>>
    /\ interrupt_event' = "clear"
    /\ industry' = req.industry
    /\ selected_agents' = ResolveSelected(req.selectedAgents, req.industry)
    /\ current_round_num' = BuildDebateRounds(selected_agents', industry')[1].round_num
    /\ UNCHANGED otherFrame

\* line 641 raises KeyError in the first session's task: it passes through _run_round
\* and stream_debate, run_stream reports it (main.py 119-125) and the task ends; the
\* agent tasks of the round are left as they are
StoreRaisesKeyError ==
    /\ pc = "wait_queue"
    /\ queue # <<>>
    /\ StoreRaises(QueueGet(queue).token)
    /\ queue' = QueueGet(queue).rest
    /\ agents_done' = agents_done + 1
    /\ pc' = "errored"
    /\ UNCHANGED <<otherVars, orphanVars, boardVars, sessionVars, debateVars, round_index,
                   current_round_num, interrupt_event, user_constraints, blackboard,
                   token_count, enriched_query, tasks, agent_buffers, snapshots, out,
                   roundStarts, restarts, roundDone, injected, completes>>

OtherStep ==
    \/ \E c \in ConstraintTexts : OtherInject(c)
    \/ \E req \in OtherRequests : OtherStartDebate(req)
    \/ StoreRaisesKeyError
    \/ TimeoutInterrupt
    \/ RestartRound

SharedNext == DebateStep \/ AgentStep \/ OtherStep

SharedSpec == Init /\ [][SharedNext]_vars

\* the debate with no inject_constraint command
NextQuiet == DebateStep \/ AgentStep

\* The event loop runs every task that is ready, and (the premise of the claim on
\* termination) every upstream stream ends or fails: weak fairness of each step.
LiveSpec == Init /\ [][NextQuiet]_vars /\ WF_vars(NextQuiet)

(***************************************************************************)
(* The session: websocket_endpoint (main.py 127-213) around the debate.     *)
(***************************************************************************)
\* stream tasks one session creates
MaxDebates == 2

\* the start_debate command the session model starts debates with
SessionRequest == [model |-> "fast", industry |-> "", selectedAgents |-> <<"synthesizer">>]

\* start_debate frames: plain, with a padded query and a padded key of the user, with a
\* blank query, with a key that is too short, with a key holding a character outside
\* [A-Za-z0-9]
StartFrames ==
    { StartFrame(SessionRequest, QueryText, NoKey),
      StartFrame(SessionRequest, <<" ">> \o QueryText \o <<"\n">>, <<" ">> \o UserKey \o <<" ">>),
      StartFrame(SessionRequest, <<" ", "\t">>, <<" ">>),
      StartFrame(SessionRequest, QueryText, SubSeq(UserKey, 1, 13)),
      StartFrame(SessionRequest, QueryText, SubSeq(UserKey, 1, 13) \o <<"_">>) }

\* inject_constraint frames whose constraint is empty after strip()
EmptyInjectFrames == { InjectFrame(<<>>), InjectFrame(<<" ", "\n">>) }

\* frames with another type, and texts that are not JSON
UnknownFrames == { Frame("json", "ping", NoRequest, <<>>, <<>>, <<>>) }

InvalidFrames == { Frame("text", "", NoRequest, <<>>, <<>>, <<>>) }

sessionFrame == <<debateVars, round_index, current_round_num, interrupt_event,
                  user_constraints, blackboard, token_count, enriched_query, roundVars,
                  out, roundStarts, restarts, roundDone, injected, completes>>

\* lines 138-177, accepted: a running stream task is cancelled and, during sleep(0),
\* ends on its CancelledError; the new task is created and runs to its first yield
StartStream(frame) ==
    /\ handler = "receiving"
    /\ stream_count < MaxDebates
    /\ Rejection(frame, server_key) = ""
    /\ received' = frame
    /\ reply' = <<>>
    /\ prior' = IF pc = "idle" THEN "none" ELSE Delivered(CancelStream(pc))
    /\ stream_count' = stream_count + 1
    /\ BeginDebate(frame.req)
    /\ UNCHANGED <<handler, server_key>>

\* lines 146-161, rejected: an error record is sent and the loop continues
RejectStart(frame) ==
    /\ handler = "receiving"
    /\ Rejection(frame, server_key) # ""
    /\ received' = frame
    /\ reply' = <<ErrorReply(Rejection(frame, server_key))>>
    /\ UNCHANGED <<pc, handler, prior, server_key, stream_count, sessionFrame, otherVars, orphanVars, boardVars>>

\* lines 179-195 with a constraint that is empty after strip()
InjectEmpty(frame) ==
    /\ handler = "receiving"
    /\ Strip(frame.constraint) = <<>>
    /\ received' = frame
    /\ reply' = <<ErrorReply("Constraint cannot be empty")>>
    /\ UNCHANGED <<pc, handler, prior, server_key, stream_count, sessionFrame, otherVars, orphanVars, boardVars>>

\* lines 197-199: a frame of no known type
UnknownType(frame) ==
    /\ handler = "receiving"
    /\ frame.type \notin {"start_debate", "inject_constraint"}
    /\ received' = frame
    /\ reply' = <<ErrorReply("Unknown message type")>>
    /\ UNCHANGED <<pc, handler, prior, server_key, stream_count, sessionFrame, otherVars, orphanVars, boardVars>>

\* json.loads raises JSONDecodeError, which is caught outside `while True` (lines 127,
\* 206-209): the endpoint returns
AfterDecodeError(h) == "failed"

InvalidJson(frame) ==
    /\ handler = "receiving"
    /\ frame.kind = "text"
    /\ received' = frame
    /\ reply' = <<ErrorReply("Invalid JSON message")>>
    /\ handler' = AfterDecodeError(handler)
    /\ UNCHANGED <<pc, prior, server_key, stream_count, sessionFrame, otherVars, orphanVars, boardVars>>

\* lines 201-205: receive_text raises WebSocketDisconnect, the stream task is cancelled
\* and the endpoint returns
Disconnect ==
    /\ handler = "receiving"
    /\ handler' = "disconnected"
    /\ pc' = CancelStream(pc)
    /\ UNCHANGED <<received, reply, prior, server_key, stream_count, sessionFrame, otherVars, orphanVars, boardVars>>

\* the cancelled stream task runs: CancelledError is raised at its await, passes through
\* _run_round and stream_debate, which handle nothing, and run_stream ends (lines
\* 117-118); the agent tasks of the round are left as they are
CancelledErrorDelivered ==
    /\ pc = "cancelling"
    /\ pc' = Delivered(pc)
    /\ UNCHANGED <<otherVars, orphanVars, boardVars, sessionVars, sessionFrame, boardVars>>

SessionStep ==
    \/ \E frame \in StartFrames : StartStream(frame)
    \/ \E frame \in StartFrames : RejectStart(frame)
    \/ \E frame \in EmptyInjectFrames : InjectEmpty(frame)
    \/ \E frame \in UnknownFrames : UnknownType(frame)
    \/ \E frame \in InvalidFrames : InvalidJson(frame)
    \/ Disconnect
    \/ CancelledErrorDelivered

RoundStep ==
    \/ EmitPhaseStart
    \/ RunRound
    \/ Dequeue
    \/ Snapshot
    \/ ResumeLoop
    \/ FinishRound
    \/ SendHandlerComplete
    \/ StreamTaskEnds

SessionInit ==
    /\ \E key_configured \in BOOLEAN : Connected(key_configured)
    /\ BlackboardNew(DefaultMaxTokens)
    /\ NoOrphans
    /\ OtherIdle

\* the steps of the agents of the session's request, which are generic agents
SessionAgentStep ==
    \/ \E a \in Agents : AgentToken(a)
    \/ \E a \in Agents : AgentFinish(a)
    \/ \E a \in Agents, e \in UpstreamErrors : GenericAgentFails(a, e)

SessionNext == SessionStep \/ RoundStep \/ SessionAgentStep \/ InterruptStep

SessionSpec == SessionInit /\ [][SessionNext]_vars

(***************************************************************************)
(* The interrupt latch under several inject_constraint commands: the       *)
(* session's debate with up to MaxLatchInjects constraints.                *)
(***************************************************************************)
MaxLatchInjects == 2

\* a start_debate command whose plan has two rounds of one agent each
LatchRequest ==
    [model |-> "fast", industry |-> "", selectedAgents |-> <<"analyst", "synthesizer">>]

LatchInterruptStep ==
    \/ \E c \in ConstraintTexts : InjectWithin(c, MaxLatchInjects)
    \/ TimeoutInterrupt
    \/ RestartRound

LatchNext ==
    StartDebate(LatchRequest) \/ RoundStep \/ SessionAgentStep \/ LatchInterruptStep

LatchSpec == Init /\ [][LatchNext]_vars

(***************************************************************************)
(* The agents' streams: debates in which every agent class of the          *)
(* registry runs; no inject_constraint command.                            *)
(***************************************************************************)
\* start_debate commands whose plans, taken together, run every agent class of the
\* registry, one agent to a round
StreamRequests ==
    { [model |-> "fast", industry |-> "",     selectedAgents |-> <<"analyst", "critic">>],
      [model |-> "fast", industry |-> "",     selectedAgents |-> <<"optimist", "pessimist">>],
      [model |-> "fast", industry |-> "",     selectedAgents |-> <<"strategist">>],
      [model |-> "fast", industry |-> "",     selectedAgents |-> <<"finance">>],
      [model |-> "fast", industry |-> "",     selectedAgents |-> <<"risk">>],
      [model |-> "fast", industry |-> "saas", selectedAgents |-> <<"saas_metrics">>],
      [model |-> "fast", industry |-> "saas", selectedAgents |-> <<"saas_growth">>] }

StreamNext ==
    \/ \E req \in StreamRequests : StartDebate(req)
    \/ RoundStep
    \/ AgentStep

StreamSpec == Init /\ [][StreamNext]_vars

(***************************************************************************)
(* The legacy Blackboard alone: append calls on a new Blackboard.          *)
(***************************************************************************)
\* append calls per Blackboard
MaxAppends == 4

\* the max_tokens a Blackboard is built with
TokenLimits == {0, 3, 6, DefaultMaxTokens}

\* contents passed to append: one word, and three words with whitespace around them
BoardContents == { <<"w1">>, <<" ", "w1", " ", "w2", " ", "w3", "\n">> }

\* who appends: agent_id and is_user_constraint
BoardWriters == { <<"analyst", FALSE>>, <<"critic", FALSE>>, <<"user", TRUE>> }

\* datetime.now().timestamp() at the last append; the clock does not run backwards
LastTimestamp == IF appended = <<>> THEN 0 ELSE appended[Len(appended)].timestamp

BoardInit == Connected(TRUE) /\ NoOrphans /\ OtherIdle /\ \E limit \in TokenLimits : BlackboardNew(limit)

boardFrame == <<pc, otherVars, orphanVars, sessionVars, debateVars, round_index, current_round_num, interrupt_event,
                user_constraints, blackboard, token_count, enriched_query, roundVars, out,
                roundStarts, restarts, roundDone, injected, completes>>

\* Blackboard.append(agent_id, content, is_user_constraint) at clock reading timestamp
BlackboardAppend(agent_id, content, is_user_constraint, timestamp) ==
    /\ Len(appended) < MaxAppends
    /\ LET entry == BlackboardEntry(agent_id, Strip(content), timestamp, is_user_constraint)
       IN  /\ entries' = TruncateIfNeeded(Append(entries, entry), max_tokens)
           /\ appended' = Append(appended, entry)
    /\ UNCHANGED <<max_tokens, boardFrame>>

BoardNext ==
    \E w \in BoardWriters, content \in BoardContents,
       timestamp \in {LastTimestamp, LastTimestamp + 1} :
        BlackboardAppend(w[1], content, w[2], timestamp)

BoardSpec == BoardInit /\ [][BoardNext]_vars

(***************************************************************************)
(* Rendering alone: prompts for constraint lists and blackboards drawn     *)
(* from small sets, built by the operators the debate uses.                *)
(***************************************************************************)
\* blackboards the prompts are rendered over
PromptBoards ==
    { <<>>,
      [k \in {1} |-> << <<"analyst", <<"ok">> >> >>],
      [k \in {1} |-> << <<"analyst", <<"ok">> >>, <<"optimist", <<>> >> >>] }

PromptInit ==
    /\ pc = "ready"
    /\ model_id = ModelFor("pro")
    /\ industry \in {"", "saas"}
    /\ selected_agents = ResolveSelected(<<"analyst", "optimist">>, industry)
    /\ debate_rounds = BuildDebateRounds(selected_agents, industry)
    /\ round_index \in {0, 1}
    /\ current_round_num = round_index + 1
    /\ interrupt_event = "clear"
    /\ user_constraints = <<>>
    /\ blackboard \in PromptBoards
    /\ token_count = 0
    /\ enriched_query = <<>>
    /\ queue = <<>>
    /\ tasks = <<>>
    /\ agents_done = 0
    /\ agent_buffers = <<>>
    /\ snapshots = 0
    /\ out = <<>>
    /\ roundStarts = <<>>
    /\ restarts = 0
    /\ roundDone = <<>>
    /\ injected = <<>>
    /\ completes = 0
    /\ handler = "receiving"
    /\ received = NoFrame
    /\ reply = <<>>
    /\ prior = "none"
    /\ server_key = TRUE
    /\ stream_count = 0
    /\ BlackboardNew(DefaultMaxTokens)
    /\ NoOrphans
    /\ OtherIdle

renderFrame == <<otherVars, orphanVars, boardVars, sessionVars, debateVars, round_index, current_round_num, interrupt_event, blackboard,
                 token_count, roundVars, out, roundStarts, restarts, roundDone, completes>>

\* inject_constraint before the next build
AddConstraint(c) ==
    /\ pc = "ready"
    /\ Len(user_constraints) < MaxConstraints
    /\ user_constraints' = AppendConstraint(user_constraints, c)
    /\ injected' = Append(injected, c)
    /\ UNCHANGED <<pc, enriched_query, renderFrame>>

\* lines 263-267: the prompt of the round is built
BuildPrompt ==
    /\ pc = "ready"
    /\ enriched_query' =
         CreateRoundPrompt(Query, industry, PreviousContext, user_constraints, RoundConfig,
             BuildDebateContext(blackboard, user_constraints, RoundConfig.round_num))
    /\ pc' = "built"
    /\ UNCHANGED <<user_constraints, injected, renderFrame>>

\* on to the next build
NextBuild ==
    /\ pc = "built"
    /\ pc' = "ready"
    /\ UNCHANGED <<user_constraints, injected, enriched_query, renderFrame>>

PromptNext ==
    \/ \E c \in ConstraintTexts : AddConstraint(c)
    \/ BuildPrompt
    \/ NextBuild

PromptSpec == PromptInit /\ [][PromptNext]_vars

(***************************************************************************)
(* Planning alone: start_debate commands over every short selection and    *)
(* every kind of industry, run up to the first round's prompt.             *)
(***************************************************************************)
\* length of the selectedAgents lists the planning model sends
MaxSelected == 3

\* ids a client may put in selectedAgents: the generic agents, the specialists of an
\* industry, and an id no registry knows
PlanAgentIds == Range(ALL_AGENT_IDS) \cup IndustryAgentIds \cup {"ghost"}

\* industries a client may name: none, one of INDUSTRY_AGENTS, one that is not in it
PlanIndustries == {"", "saas", "space"}

PlanSelections == UNION {[1..n -> PlanAgentIds] : n \in 0..MaxSelected}

PlanRequests ==
    { [model |-> "fast", industry |-> ind, selectedAgents |-> sel] :
        ind \in PlanIndustries, sel \in PlanSelections }

PlanNext ==
    \/ \E req \in PlanRequests : StartDebate(req)
    \/ EmitPhaseStart
    \/ RunRound

PlanSpec == Init /\ [][PlanNext]_vars

(***************************************************************************)
(* Reading traces and prompts.                                             *)
(***************************************************************************)
RECURSIVE SelectRecs(_, _, _)
\* the records of s of agent a whose type is in types, in order
SelectRecs(s, a, types) ==
    IF s = <<>> THEN <<>>
    ELSE (IF Head(s).agentId = a /\ Head(s).type \in types THEN <<Head(s)>> ELSE <<>>)
         \o SelectRecs(Tail(s), a, types)

AgentTypes == {"agent_token", "agent_metrics", "agent_done", "agent_error", "error"}

\* the records of agent a emitted in the current round attempt
AgentRecs(a) == SelectRecs(out, a, AgentTypes)

CountRecs(s, a, type) == Len(SelectRecs(s, a, {type}))

\* debate_complete has been yielded by stream_debate
DebateComplete == pc \in {"y_complete", "h_complete", "finished"}

PlanLength == Len(debate_rounds)

RECURSIVE ItemsAfter(_)
\* the constraint texts of the run of "item" lines a block starts with
ItemsAfter(lines) ==
    IF lines = <<>> \/ Head(lines).kind # "item" THEN <<>>
    ELSE Head(lines).body \o ItemsAfter(Tail(lines))

RECURSIVE BlockItems(_, _)
\* the constraint texts listed under the first line of kind header
BlockItems(lines, header) ==
    IF lines = <<>> THEN <<>>
    ELSE IF Head(lines).kind = header THEN ItemsAfter(Tail(lines))
    ELSE BlockItems(Tail(lines), header)

CriticalHeader == "CRITICAL USER CONSTRAINTS (FOLLOW EXACTLY):"

ContextHeader == "=== USER CONSTRAINTS (FOLLOW THESE!) ==="

\* number of lines of the prompt in which the text c occurs
Occurrences(prompt, c) == Cardinality({i \in 1..Len(prompt) : InSeq(c, prompt[i].body)})

CountIn(s, x) == Cardinality({i \in 1..Len(s) : s[i] = x})

(***************************************************************************)
(* Claims.                                                                 *)
(***************************************************************************)

\* C1 (as stated): once debate_complete is emitted, the round_start records are exactly
\* N, with round fields 1, 2, ..., N, also when inject_constraint was called mid-round.
C1_ExactlyNRoundStarts ==
    DebateComplete => roundStarts = [i \in 1..PlanLength |-> i]

\* C1 (amended): there is one round_start per attempt of a round: the round fields start
\* at 1, never decrease and never skip, a restart repeating the number of its round;
\* when debate_complete is emitted they end at N and number N plus the restarts, which
\* is 1, 2, ..., N exactly when no round was restarted.
C1_RoundStartPerAttempt ==
    /\ roundStarts # <<>> => roundStarts[1] = 1
    /\ \A i \in 1..(Len(roundStarts) - 1) :
          roundStarts[i + 1] \in {roundStarts[i], roundStarts[i] + 1}
    /\ DebateComplete =>
          /\ roundStarts[Len(roundStarts)] = PlanLength
          /\ Len(roundStarts) = PlanLength + restarts
          /\ restarts = 0 => roundStarts = [i \in 1..PlanLength |-> i]

\* C1 witness: a two-round debate that was restarted has completed
C1_Witness == pc = "finished" /\ PlanLength = 2 /\ restarts >= 1

\* C2 (as stated): the client receives exactly one debate_complete for a debate that
\* finishes normally, none from the session handler after the orchestrator's own.
C2_OneDebateComplete ==
    /\ completes <= 1
    /\ pc = "finished" => completes = 1

\* the participants of the round attempt that is running
Participants == DOMAIN tasks

\* the round attempt is running: its tasks exist and its records are in queue or out
AttemptRunning == pc \in {"wait_queue", "y_msg", "y_metrics", "gather"}

\* every record the task of a has queued has been dequeued and emitted
Drained(a) == SelectRecs(queue, a, AgentTypes) = <<>> /\ pc \notin {"y_msg", "y_metrics"}

\* C3 (as stated): the records of agent a in round k end with exactly one agent_done and
\* contain at most one agent_metrics, which immediately precedes the agent_done: over the
\* attempts of a round an agent has at most one agent_done, and once a's task has ended
\* and its records have been emitted, the last of them is the agent_done.
C3_RecordsEndWithOneDone ==
    /\ \A a \in DOMAIN roundDone : roundDone[a] <= 1
    /\ \A a \in Participants :
          LET r == AgentRecs(a) IN
          /\ CountRecs(out, a, "agent_metrics") <= 1
          /\ \A i \in 1..(Len(r) - 1) :
                r[i].type = "agent_metrics" => r[i + 1].type = "agent_done"
          /\ (AttemptRunning /\ tasks[a].st = "ended" /\ Drained(a)) =>
                /\ r # <<>>
                /\ r[Len(r)].type = "agent_done"

\* C4 (as stated): with no constraint injected and every upstream stream ending or
\* failing, a debate that has started eventually emits debate_complete.
C4_DebateCompletes == (pc = "y_round_start") ~> DebateComplete

PromptConstraints == BlockItems(enriched_query, CriticalHeader)

\* the constraints listed in the USER CONSTRAINTS block of the debate context
ContextConstraints == BlockItems(enriched_query, ContextHeader)

\* C7 (as stated): a constraint injected while round k is in progress, before the round
\* executor has returned, restarts round k: the executor never returns normally from a
\* round whose prompt lacks a constraint of the list, so no entry made from such a
\* prompt reaches the prompt of round k+1.
C7_InjectRestartsRound ==
    [][(pc = "gather" /\ pc' # "gather") => PromptConstraints = user_constraints]_vars

\* C8: every prompt built after inject_constraint(c) in a debate, the rebuilt prompt of
\* the restarted round included, lists c (and every constraint injected before it);
\* after debate_complete no prompt is built.
C8_LaterPromptsContain ==
    [][/\ (pc = "y_phase_start" /\ pc' # pc) =>
              /\ BlockItems(enriched_query', CriticalHeader) = injected
              /\ BlockItems(enriched_query', ContextHeader) = injected
       /\ DebateComplete => enriched_query' = enriched_query]_vars

\* C8 witness: a round restarted after an injection runs on a prompt with the constraint
C8_Witness ==
    /\ AttemptRunning
    /\ restarts >= 1
    /\ injected # <<>>
    /\ PromptConstraints = injected

\* C9: a prompt built for any round (round 1 included) lists every element of the
\* constraint list of that moment, in the order of injection, in its CRITICAL block and
\* in the USER CONSTRAINTS block of its debate context.
C9_ConstraintsInOrder ==
    pc = "built" =>
        /\ PromptConstraints = injected
        /\ ContextConstraints = injected

\* C9 witness: the prompt of round 1 built with two different constraints
C9_Witness ==
    /\ pc = "built"
    /\ round_index = 0
    /\ Len(injected) >= 2
    /\ injected[1] # injected[2]
    /\ PromptConstraints = injected

\* C10 (as stated): the same text injected twice gives two list entries and exactly two
\* occurrences of the text in the prompt.
C10_TwoOccurrences ==
    \A c \in ConstraintTexts :
        (pc = "built" /\ CountIn(injected, c) = 2) =>
            /\ CountIn(user_constraints, c) = 2
            /\ Occurrences(enriched_query, c) = 2

\* C10 (amended): every injection adds an entry to the constraint list (no
\* deduplication), and every entry is rendered twice in a prompt, once in the CRITICAL
\* block and once in the USER CONSTRAINTS block of the debate context: a text injected n
\* times occurs 2n times, four times when injected twice.
C10_TwoOccurrencesPerEntry ==
    /\ user_constraints = injected
    /\ pc = "built" =>
          \A c \in ConstraintTexts :
              /\ Occurrences(enriched_query, c) = 2 * CountIn(injected, c)
              /\ CountIn(PromptConstraints, c) = CountIn(injected, c)
              /\ CountIn(ContextConstraints, c) = CountIn(injected, c)

\* C10 witness: a prompt built after the same text was injected twice
C10_Witness ==
    /\ pc = "built"
    /\ \E c \in ConstraintTexts :
          /\ CountIn(injected, c) = 2
          /\ Occurrences(enriched_query, c) = 4

\* the agents that have an entry in round k of the blackboard
EntryAgents(bb, k) == IF k \in DOMAIN bb THEN {bb[k][i][1] : i \in 1..Len(bb[k])} ELSE {}

\* the entry of agent a in round k of the blackboard, <<>> if there is none
EntryOf(bb, k, a) ==
    IF a \in EntryAgents(bb, k)
    THEN LET i == CHOOSE j \in 1..Len(bb[k]) : bb[k][j][1] = a IN <<bb[k][i][2]>>
    ELSE <<>>

\* the rounds of the plan
PlanRounds == 1..PlanLength

\* C11: the blackboard gets an entry for (round k, agent a) only in the step that yields
\* a's agent_done of round k downstream, so in every state an entry of the round that is
\* running has its agent_done among the records emitted in this attempt.
C11_EntryOnlyWithDone ==
    [][/\ \A k \in PlanRounds : \A a \in EntryAgents(blackboard', k) :
              EntryOf(blackboard', k, a) # EntryOf(blackboard, k, a) =>
                  /\ k = current_round_num
                  /\ out' # <<>>
                  /\ out'[Len(out')] = DoneRec(a)
       /\ AttemptRunning' =>
              \A a \in EntryAgents(blackboard', current_round_num') :
                  CountRecs(out', a, "agent_done") = 1]_vars

\* C11 witness: an agent's tokens were saved to the blackboard as its agent_done was yielded
C11_Witness ==
    /\ pc = "y_msg"
    /\ out[Len(out)].type = "agent_done"
    /\ EntryOf(blackboard, current_round_num, out[Len(out)].agentId) = << <<OkContent>> >>

\* the round whose round_start was emitted last (0 before the first)
RoundBegun == IF roundStarts = <<>> THEN 0 ELSE roundStarts[Len(roundStarts)]

C14_NoEntryForFailedAgent ==
    pc = "gather" =>
        \A a \in Participants :
            tasks[a].failed => a \notin EntryAgents(blackboard, current_round_num)

RoundCurrent ==
    pc \in {"y_round_start", "y_phase_start", "wait_queue", "y_msg", "y_metrics",
            "cancel_wait", "gather"}

\* C16 (as stated): every inject_constraint command with a non-empty constraint appends
\* it to the list, sets the latch and is answered with one constraint_acknowledged
\* carrying it, whether or not a debate is running.
C16_InjectAlwaysSetsLatch ==
    [][\A c \in ConstraintTexts :
           injected' = Append(injected, c) =>
               /\ user_constraints' = Append(user_constraints, c)
               /\ interrupt_event' = "set"
               /\ reply' = <<AckReply(c)>>]_vars

\* C16 (amended): every inject_constraint command with a non-empty constraint appends it
\* to the list and is answered with exactly one constraint_acknowledged carrying it,
\* whether or not a debate is running; it sets the latch only while a round of a debate
\* is current, and leaves the latch as it is before the first debate and after
\* debate_complete.
C16_InjectSetsLatchInRound ==
    [][\A c \in ConstraintTexts :
           injected' = Append(injected, c) =>
               /\ user_constraints' = Append(user_constraints, c)
               /\ interrupt_event' = IF RoundCurrent THEN "set" ELSE interrupt_event
               /\ reply' = <<AckReply(c)>>
               /\ received'.type = "inject_constraint"
               /\ Strip(received'.constraint) = <<c>>]_vars

\* C16 witness: a constraint injected while a round runs is in the list, acknowledged, and
\* the latch is set
C16_Witness ==
    /\ pc = "wait_queue"
    /\ injected # <<>>
    /\ user_constraints = injected
    /\ reply = <<AckReply(injected[Len(injected)])>>
    /\ interrupt_event = "set"

\* C17 (as stated): after a protocol error the session has sent an error record and goes
\* on receiving: unless the client has disconnected, the receive loop is still running.
C17_SessionContinuesAfterError ==
    (reply # <<>> /\ reply[1].type = "error") => handler \in {"receiving", "disconnected"}

\* the start_debate frame just received must be rejected: its query is empty after
\* strip(), its key is malformed, or it has no key and the server has none
MustReject(frame) ==
    LET k == Strip(frame.apiKey) IN
    \/ Strip(frame.query) = <<>>
    \/ k # <<>> /\ ~IsValidApiKey(k)
    \/ k = <<>> /\ ~server_key

\* C18: a start_debate command that must be rejected is answered with one error record
\* and changes nothing else: no stream task is created or cancelled, no round_start is
\* emitted, and the constraint list, blackboard and latch are as before.
C18_RejectedStartChangesNothing ==
    [][(/\ received'.type = "start_debate"
        /\ <<received, reply, stream_count>>' # <<received, reply, stream_count>>
        /\ MustReject(received')) =>
           /\ Len(reply') = 1
           /\ reply'[1].type = "error"
           /\ UNCHANGED <<pc, stream_count, prior, handler, sessionFrame>>]_vars

\* C18 witness: a start_debate was rejected while a debate with a constraint was running
C18_Witness ==
    /\ received.type = "start_debate"
    /\ MustReject(received)
    /\ reply # <<>>
    /\ pc = "wait_queue"
    /\ user_constraints # <<>>
    /\ \E a \in Participants : tasks[a].st = "running"

\* C19: once the session has disconnected, no record of the debate is emitted any more:
\* no round_start, no agent record, no debate_complete.
C19_SilentAfterDisconnect ==
    [][handler' = "disconnected" =>
           /\ out' = out
           /\ roundStarts' = roundStarts
           /\ completes' = completes]_vars

\* C19 witness: the session disconnected in the middle of a round and the stream task has
\* ended on its CancelledError, no debate_complete sent
C19_Witness ==
    /\ handler = "disconnected"
    /\ pc = "cancelled"
    /\ roundStarts # <<>>
    /\ completes = 0
    /\ Len(out) >= 2

\* C20 (as stated): when the stream task has been cancelled (disconnect or a new
\* start_debate), no agent task of the round it was running is still running.
C20_AgentTasksCancelled ==
    (pc = "cancelled" \/ (prior = "cancelled" /\ pc \in {"y_round_start", "y_phase_start"})) =>
        \A a \in Participants : tasks[a].st # "running"

\* the start_debate command the debate was started with
Requested == received.req

\* a debate has been started and its plan built
Planned == pc # "idle" /\ received.type = "start_debate"

\* C21: for every (industry, selection) pair, synthesizer is in the resolved agent set,
\* the plan is non-empty, and the last round of the plan has synthesizer as a
\* participant.
C21_SynthesizerLast ==
    Planned =>
        /\ InSeq("synthesizer", selected_agents)
        /\ debate_rounds # <<>>
        /\ InSeq("synthesizer", debate_rounds[Len(debate_rounds)].agents)

\* a plan built for an industry and a selection that does not name synthesizer
C21_Witness ==
    /\ Planned
    /\ industry = "saas"
    /\ Requested.selectedAgents # <<>>
    /\ ~InSeq("synthesizer", Requested.selectedAgents)
    /\ Len(debate_rounds) > 1

\* C22: when a known industry is configured and the requested selection names the
\* generic slot finance (resp. risk), the resolved agent set contains the industry's
\* first (resp. second) specialist in its place and not the generic agent.
C22_GenericSlotReplaced ==
    (Planned /\ IsIndustry(industry)) =>
        \A i \in 1..Len(Requested.selectedAgents) :
            /\ Requested.selectedAgents[i] = "finance" =>
                   /\ selected_agents[i] = INDUSTRY_AGENTS[industry][1]
                   /\ ~InSeq("finance", selected_agents)
            /\ Requested.selectedAgents[i] = "risk" =>
                   /\ selected_agents[i] = INDUSTRY_AGENTS[industry][2]
                   /\ ~InSeq("risk", selected_agents)

\* the round names of the template, in its order
TemplateOrder ==
    <<"Opening Arguments", "Challenge", "Defense & Rebuttal", "Expert Analysis",
      "Final Verdict">>

\* the place of a round name in the template
TemplateIndex(name) == CHOOSE i \in 1..Len(TemplateOrder) : TemplateOrder[i] = name

\* the plan has a round of this name
HasRound(name) == \E i \in 1..Len(debate_rounds) : debate_rounds[i].name = name

\* C23: for every resolved agent set, the plan lists rounds in the fixed template order
\* (opening, challenge, defense, expert, verdict), every planned round has at least one
\* participant and all its participants are in the resolved set, the defense round is
\* present only if the challenge round is present and at least one defender remains,
\* and the round numbers are contiguous 1..N.
C23_PlanFollowsTemplate ==
    Planned =>
        /\ \A i \in 1..Len(debate_rounds) :
              /\ InSeq(debate_rounds[i].name, TemplateOrder)
              /\ debate_rounds[i].agents # <<>>
              /\ Range(debate_rounds[i].agents) \subseteq Range(selected_agents)
              /\ debate_rounds[i].round_num = i
        /\ \A i, j \in 1..Len(debate_rounds) :
              i < j => TemplateIndex(debate_rounds[i].name) < TemplateIndex(debate_rounds[j].name)
        /\ HasRound("Defense & Rebuttal") =>
              /\ HasRound("Challenge")
              /\ Range(selected_agents) \cap {"analyst", "optimist"} # {}

\* a plan with all five rounds, built for a selection the client sent
C23_Witness ==
    /\ Planned
    /\ Len(debate_rounds) = 5
    /\ Requested.selectedAgents # <<>>

\* the prompt of the first round has been built
PromptBuilt == Planned /\ enriched_query # <<>>

\* the debate was started with an industry that is not in INDUSTRY_AGENTS
UnknownIndustry == industry # "" /\ ~IsIndustry(industry)

\* C24: a start_debate naming an industry that is not in the industry table behaves
\* exactly as one with no industry (same resolved agents, same plan, and the same
\* prompts, with no industry block or industry wording in any prompt); agent ids in
\* selectedAgents that are not known agents are dropped from the resolved agent set
\* and appear in no round.
C24_UnknownTreatedAsAbsent ==
    /\ (Planned /\ UnknownIndustry) =>
          /\ selected_agents = ResolveSelected(Requested.selectedAgents, "")
          /\ debate_rounds = BuildDebateRounds(selected_agents, "")
    /\ (PromptBuilt /\ UnknownIndustry) =>
          enriched_query =
            CreateRoundPrompt(Query, "", PreviousContext, user_constraints, RoundConfig,
                BuildDebateContext(blackboard, user_constraints, RoundConfig.round_num))
    /\ Planned =>
          /\ Range(selected_agents) \subseteq Registry(industry)
          /\ \A i \in 1..Len(debate_rounds) :
                Range(debate_rounds[i].agents) \subseteq Registry(industry)

\* the while loop of _run_round has ended: the round ends normally
RoundEnded == pc = "gather"

\* C25: for every round that ends normally, the last record the round executor emits
\* for that round is an agent_done record (no record of any other type, such as a
\* metrics snapshot, is emitted for the round after the last participant's
\* agent_done), and by then one agent_done has been emitted for each participant.
C25_RoundEndsWithDone ==
    RoundEnded =>
        /\ out[Len(out)].type = "agent_done"
        /\ \A a \in Participants : CountRecs(out, a, "agent_done") = 1

\* the records agent a has put on the queue in the current round attempt, in the order
\* of the puts: those already emitted, then those still queued
Produced(a) == AgentRecs(a) \o SelectRecs(queue, a, AgentTypes)

\* s is t or t with records added at its end
Extends(s, t) == Len(s) >= Len(t) /\ SubSeq(s, 1, Len(t)) = t

\* C26: for any single agent in any round attempt, the records of that agent emitted
\* downstream appear in exactly the order in which the agent produced them, under
\* every interleaving of the concurrently running agent tasks of the round: while the
\* attempt runs, the agent's emitted records followed by its queued ones only ever
\* grow at the end, so what is emitted is always the first part of what was produced.
C26_AgentOrderKept ==
    [][ (AttemptRunning /\ AttemptRunning') =>
          \A a \in Participants :
              /\ Extends(Produced(a)', Produced(a))
              /\ Extends(AgentRecs(a)', AgentRecs(a)) ]_vars

\* two agents of one round interleaved downstream: a record of one between two records
\* of the other
C26_Witness ==
    /\ AttemptRunning
    /\ \E i, j, k \in 1..Len(out) :
          /\ i < j /\ j < k
          /\ out[i].agentId \in Participants
          /\ out[k].agentId = out[i].agentId
          /\ out[j].agentId \in Participants \ {out[i].agentId}

\* the debate task is inside an attempt of a round, from the yield of round_start on
InRound ==
    pc \in {"y_round_start", "y_phase_start", "wait_queue", "y_msg", "y_metrics", "gather",
            "cancel_wait"}

\* C27: on entry to every round k (first entry and every restart) the orchestrator
\* emits round_start(k) immediately followed by phase_start(k) with the same name;
\* these precede every agent record of that attempt of round k, and round_start(k)
\* follows every record of round k-1 (after it, only records of participants of
\* round k are queued or emitted).
C27_RoundStartThenPhaseStart ==
    InRound =>
        /\ out # <<>>
        /\ out[1] = Rec("round_start", "", RoundConfig.name, RoundConfig.round_num)
        /\ roundStarts[Len(roundStarts)] = RoundConfig.round_num
        /\ pc # "y_round_start" =>
              /\ Len(out) >= 2
              /\ out[2] = Rec("phase_start", "", RoundConfig.name, RoundConfig.round_num)
        /\ \A i \in 1..Len(out) :
              /\ i >= 3 => out[i].type \notin {"round_start", "phase_start"}
              /\ out[i].type \in AgentTypes =>
                    /\ i >= 3
                    /\ out[i].agentId \in Range(RoundConfig.agents)
        /\ \A i \in 1..Len(queue) : queue[i].agentId \in Range(RoundConfig.agents)

\* a restarted attempt of a round after the first has emitted an agent record
C27_Witness ==
    /\ InRound
    /\ CountIn(roundStarts, RoundConfig.round_num) >= 2
    /\ RoundConfig.round_num > 1
    /\ \E i \in 1..Len(out) : out[i].type \in AgentTypes

\* the stream_response generator of agent a was consumed to its end in the current round
\* attempt: its task has ended without run_with_model cutting the stream short, so what
\* the task put on the queue is all the generator yielded for the prompt
StreamEnded(a) ==
    /\ AttemptRunning
    /\ a \in Participants
    /\ tasks[a].st = "ended"
    /\ ~tasks[a].failed

\* the records of s, all of them agent_token records
AllTokens(s) == \A i \in 1..Len(s) : s[i].type = "agent_token"

\* C28: every agent's record stream for one prompt consists, in order, of zero or more
\* agent_token records, then exactly one agent_metrics record, then exactly one
\* agent_done record, for every agent class in the registry.
C28_TokensMetricsDone ==
    \A a \in Agents :
        StreamEnded(a) =>
            LET p == Produced(a)
                n == Len(p)
            IN  /\ n >= 2
                /\ AllTokens(SubSeq(p, 1, n - 2))
                /\ p[n - 1].type = "agent_metrics"
                /\ p[n].type = "agent_done"

\* the except branch of the agent's stream_response has run: the stream holds a token
\* "[Error: ...]" or a record of type "error"
IsFailureRecord(r) ==
    \/ r.type = "agent_token" /\ IsErrorContent(r.content)
    \/ r.type = "error"

UpstreamFailed(a) == \E i \in 1..Len(Produced(a)) : IsFailureRecord(Produced(a)[i])

\* C29: on upstream failure at any point of its stream, every agent (generic and
\* industry-specialist) emits a single agent_token whose content begins with "[Error:"
\* and then still terminates its stream with one agent_metrics and one agent_done.
C29_ErrorTokenThenTerminals ==
    \A a \in Agents :
        (StreamEnded(a) /\ UpstreamFailed(a)) =>
            LET p == Produced(a)
                n == Len(p)
            IN  /\ n >= 3
                /\ p[n - 2].type = "agent_token" /\ IsErrorContent(p[n - 2].content)
                /\ \A i \in 1..(n - 3) : p[i].type = "agent_token" /\ ~IsErrorContent(p[i].content)
                /\ p[n - 1].type = "agent_metrics"
                /\ p[n].type = "agent_done"

\* C30: blackboard truncation never removes a user-constraint entry: after any sequence
\* of append calls on the legacy Blackboard (with any max_tokens), every entry appended
\* with is_user_constraint=True is still present in entries, and agent entries are
\* removed oldest first (the agent entries left are the newest ones appended).
C30_UserConstraintsKept ==
    /\ SelectEntries(entries, TRUE) = SelectEntries(appended, TRUE)
    /\ LET kept == SelectEntries(entries, FALSE)
           all == SelectEntries(appended, FALSE)
       IN  /\ Len(kept) <= Len(all)
           /\ kept = SubSeq(all, Len(all) - Len(kept) + 1, Len(all))

\* truncation has removed an agent entry and left a newer one, with a user constraint
\* older than both on the board
C30_Witness ==
    /\ appended # <<>>
    /\ appended[1].is_user_constraint
    /\ Len(entries) < Len(appended)
    /\ SelectEntries(entries, FALSE) # <<>>

\* C31 (as stated): after every append on the legacy Blackboard, the estimated token
\* count of all retained entries (get_token_count) is at most max_tokens.
C31_WithinLimit == GetTokenCount(entries) <= max_tokens

\* C31 (amended): after every append, the estimated token count of the retained entries
\* is at most max_tokens, or no agent entry is retained: user constraints are kept even
\* when they alone exceed the limit.
C31_WithinLimitOrOnlyConstraints ==
    \/ GetTokenCount(entries) <= max_tokens
    \/ SelectEntries(entries, FALSE) = <<>>

\* truncation has dropped agent entries down to the limit, with a user constraint and a
\* newer agent entry left on the board
C31_Witness ==
    /\ Len(entries) < Len(appended)
    /\ SelectEntries(entries, TRUE) # <<>>
    /\ SelectEntries(entries, FALSE) # <<>>
    /\ GetTokenCount(entries) <= max_tokens
    /\ GetTokenCount(appended) > max_tokens

RECURSIVE TokenTexts(_, _)
\* the contents of the agent_token records of agent a in s that do not begin with
\* "[Error:", in order
TokenTexts(s, a) ==
    IF s = <<>> THEN <<>>
    ELSE (IF Head(s).type = "agent_token" /\ Head(s).agentId = a
             /\ ~IsErrorContent(Head(s).content)
          THEN <<Head(s).content>> ELSE <<>>) \o TokenTexts(Tail(s), a)

RECURSIVE LinesOfKind(_, _)
\* the lines of the prompt with this fixed wording, in order
LinesOfKind(prompt, kind) ==
    IF prompt = <<>> THEN <<>>
    ELSE (IF Head(prompt).kind = kind THEN <<Head(prompt)>> ELSE <<>>)
         \o LinesOfKind(Tail(prompt), kind)

\* the blackboard entries of rounds 1..k-1, round by round
PriorEntries(bb, k) ==
    Flatten([n \in 1..(k - 1) |-> IF n \in DOMAIN bb THEN bb[n] ELSE <<>>])

\* the prompt of the current attempt has been built
AttemptPrompted == AttemptRunning \/ pc = "cancel_wait"

\* C33: the debate context placed in the prompt of round k contains the blackboard
\* entries of exactly the rounds 1..k-1 (each completed agent's final text under its
\* round's block) and no text produced in round k or later; in particular, text stored
\* for round k before a restart of round k appears in no prompt of round k or of any
\* later round: whenever a prompt of round k is about to be built the blackboard holds
\* no entry for round k or a later round.
C33_ContextIsPriorRounds ==
    /\ AttemptPrompted =>
          LET k == current_round_num
              headers == LinesOfKind(enriched_query, "=== ROUND ===")
              names == LinesOfKind(enriched_query, "[agent]:")
              texts == LinesOfKind(enriched_query, "text")
              earlier == PriorEntries(blackboard, k)
          IN  /\ [i \in 1..Len(headers) |-> headers[i].idx] = [n \in 1..(k - 1) |-> n]
              /\ [i \in 1..Len(names) |-> names[i].body] =
                    [i \in 1..Len(earlier) |-> <<AgentName(earlier[i][1])>>]
              /\ [i \in 1..Len(texts) |-> texts[i].body] =
                    [i \in 1..Len(earlier) |-> earlier[i][2]]
    /\ pc \in {"y_round_start", "y_phase_start"} =>
          \A n \in DOMAIN blackboard : n >= current_round_num => blackboard[n] = <<>>

\* the prompt of round 2 holds the entries of a round 1 that had been restarted
C33_Witness ==
    /\ AttemptPrompted
    /\ current_round_num = 2
    /\ CountIn(roundStarts, 1) >= 2
    /\ Len(LinesOfKind(enriched_query, "text")) = 2
    /\ \E i \in 1..Len(blackboard[1]) : blackboard[1][i][2] # <<>>

\* the agent_token records in a sequence of records that name agent a
TokensOf(s, a) == CountRecs(s, a, "agent_token")

\* C34: after round k is restarted, no record produced by an agent task of an earlier
\* attempt of round k is emitted downstream, even if such a task was not yet finished
\* when the 1-second cancellation wait expired: the records emitted or waiting in the
\* queue of the running attempt are the ones its own tasks put, and no others.
C34_OnlyOwnAttemptEmitted ==
    (AttemptRunning \/ pc = "cancel_wait") =>
        /\ \A i \in 1..Len(queue) : queue[i].agentId \in DOMAIN tasks
        /\ \A i \in 1..Len(out) :
              out[i].type \in AgentTypes => out[i].agentId \in DOMAIN tasks
        /\ \A a \in DOMAIN tasks : TokensOf(out, a) + TokensOf(queue, a) = tasks[a].put

\* a task of the interrupted attempt is still putting records while the restarted
\* attempt of the same agent has had a token emitted
C34_Witness ==
    /\ AttemptRunning
    /\ restarts >= 1
    /\ \E a \in orphans \cap DOMAIN tasks :
          /\ TokensOf(abandoned, a) >= 1
          /\ TokensOf(out, a) >= 1

\* the round executor has seen the latch set and is cancelling the attempt's tasks
RestartPending == pc = "cancel_wait"

\* C35 (as stated): a round is restarted only when a constraint was injected after the
\* prompt of its current attempt was built; an injection that arrives before the prompt
\* build of round k (between rounds, or while round_start/phase_start of round k are
\* being sent) is already contained in that prompt and causes no additional restart:
\* whenever a restart is pending, the prompt of the attempt lacks an injected constraint.
C35_RestartOnlyForUnseenConstraint ==
    RestartPending => PromptConstraints # user_constraints

\* the latch that inject_constraint had set is cleared in this step
LatchObserved == interrupt_event = "set" /\ interrupt_event' = "clear"

\* C36 (as stated): the interrupt latch is single-shot and coalescing: any number
\* n >= 1 of injections that occur between two consecutive observations of the latch
\* cause exactly one restart of the current round: a step that finds the latch set and
\* clears it either starts the cancellation for a restart or is the restart under way.
C36_SetLatchMeansRestart ==
    [][LatchObserved => (pc' = "cancel_wait" \/ pc = "cancel_wait")]_vars

\* C36, the part on coalescing: the constraints injected since the last observation
\* are all in the prompt when the attempt waits on its queue with the latch clear,
\* and the restarts never outnumber the injections.
C36_LatchClearPromptComplete ==
    /\ (pc = "wait_queue" /\ interrupt_event = "clear") => PromptConstraints = user_constraints
    /\ restarts <= Len(injected)

\* two injections between two observations were answered by one restart, and the
\* restarted attempt waits on its queue with both constraints in its prompt
C36_CoalescedReached ==
    /\ pc = "wait_queue"
    /\ interrupt_event = "clear"
    /\ Len(injected) = 2
    /\ restarts = 1
    /\ PromptConstraints = injected

\* the second session's handler passes a command to the orchestrator in this step
OtherSessionActs == other_commands' # other_commands

\* C37 (as stated): debates of different sessions do not interfere: starting a debate
\* or injecting a constraint on session B never changes the blackboard, constraint
\* list, interrupt latch, agent set or emitted records of a debate that is in flight
\* on session A.
C37_SessionsIsolated ==
    [][(OtherSessionActs /\ InFlight) =>
          UNCHANGED <<blackboard, user_constraints, interrupt_event, industry,
                      selected_agents, out>>]_vars

\* the session's receive loop has ended and websocket_endpoint has returned
ReceiveLoopEnded == handler \in {"disconnected", "failed"}

\* C38 (as stated): whenever the session's receive loop ends for any reason (client
\* disconnect, a frame that is not valid JSON, or any other exception in the handler),
\* an in-flight debate task of that session is cancelled: once the loop has ended the
\* stream task is unstarted, over, or marked for cancellation.
C38_LoopEndCancelsDebate ==
    ReceiveLoopEnded => (pc = "idle" \/ StreamDone(pc) \/ pc = "cancelling")

\* the agent_token records in a sequence of emitted records
TokensIn(s) == Cardinality({i \in 1..Len(s) : s[i].type = "agent_token"})

\* the agent_token records this step emits (out starts afresh with each round_start)
EmittedTokens ==
    IF Extends(out', out) THEN TokensIn(out') - TokensIn(out) ELSE TokensIn(out')

\* C39: the orchestrator's cumulative token counter equals the number of agent_token
\* records dequeued for emission since the debate started: it is zero when the debate
\* begins, every later step adds to it exactly the agent_token records the step emits
\* (so a round restart neither resets nor decreases it), and every metrics snapshot and
\* debate_complete carries the counter's value at its emission.
C39_CounterCountsTokens ==
    [][/\ (pc = "idle" => token_count' = 0)
       /\ (pc # "idle" => token_count' = token_count + EmittedTokens)
       /\ (out' # out /\ out'[Len(out')].type \in {"metrics", "debate_complete"} =>
              out'[Len(out')].n = token_count')]_vars

\* debate_complete is emitted in a debate that had a round restarted and carries the
\* counter, which has counted at least three tokens
C39_Witness ==
    /\ pc = "y_complete"
    /\ restarts >= 1
    /\ out[Len(out)].type = "debate_complete"
    /\ out[Len(out)].n = token_count
    /\ token_count >= 3

\* the agents that speak in some round of the plan
PlanSpeakers == UNION {Range(debate_rounds[i].agents) : i \in 1..Len(debate_rounds)}

\* C40 (as stated): every agent of the resolved agent set participates in at least one
\* round of the plan, for every selection and industry.
C40_EveryAgentSpeaks ==
    Planned => Range(selected_agents) \subseteq PlanSpeakers

====
